---- MODULE Spec2Model ----
(***************************************************************************)
(* A model of the catana settlement engine: board topology, GameState       *)
(* construction and port validation (base_computes/game_state.py), the      *)
(* settlement scorer and decision rule (base_computes/settle_eval_simple.py)*)
(* the top-x option picker (base_computes/settle_options.py) and the draft  *)
(* simulator (base_computes/settle_sim.py).                                 *)
(*                                                                         *)
(* Representation.                                                          *)
(*  - A node key "a_b_c" is the tuple <<a, b, c>>, an edge key "a_b" the    *)
(*    tuple <<a, b>>.  Where the code orders keys as strings (sorted(),     *)
(*    a stable sort's ties) the model orders them by their characters.      *)
(*  - A float is a fixed-point integer.  Scores carry 3 decimal digits      *)
(*    (SCORE_ONE = 1.0); probabilities are multiples of 2^-30 (ONE = 1.0),  *)
(*    every product and quotient rounded down.  Equality of floats "up to   *)
(*    rounding" is equality within TOL (1e-6).                              *)
(*  - Python objects live in a heap: an object reference is a number, a     *)
(*    deep copy allocates a new one.                                        *)
(***************************************************************************)
EXTENDS Integers, Sequences, FiniteSets, TLC

\* ------------------------------------------------------------------------
\* Bounds of the model
\* ------------------------------------------------------------------------
MaxX == 2
MaxWindow == 3

\* ------------------------------------------------------------------------
\* Generic helpers
\* ------------------------------------------------------------------------
Range(s) == {s[i] : i \in DOMAIN s}

Min2(a, b) == IF a <= b THEN a ELSE b

RECURSIVE SumSeq(_)
SumSeq(s) == IF s = <<>> THEN 0 ELSE Head(s) + SumSeq(Tail(s))

Prefix(s, n) == IF n >= Len(s) THEN s ELSE SubSeq(s, 1, n)

\* A list, or a dict, given by a rule, as the table of its values.
List(f) == f \o <<>>

Table(f) == f @@ <<>>

\* list.sort(key=lambda x: x[1], reverse=True) and sorted(..., reverse=True)
\* on a list of pairs: a stable sort, descending by the second component;
\* pairs with equal keys keep their order.
\* The element at position i moves behind every element with a larger key and
\* every earlier element with the same key.
SortDesc(s) ==
    LET Place(pos) ==
            List([p \in DOMAIN s |-> s[CHOOSE i \in DOMAIN s : pos[i] = p]])
    IN Place(List([i \in DOMAIN s |->
                 1 + Cardinality({j \in DOMAIN s :
                       s[j][2] > s[i][2] \/ (s[j][2] = s[i][2] /\ j < i)})]))

\* ------------------------------------------------------------------------
\* Fixed-point numbers
\* ------------------------------------------------------------------------
\* 1.0 as a probability (settle_sim.py: the 1.0 of the player's own option).
ONE == 2 ^ 30
HALF_BITS == 2 ^ 15
\* 1e-6, the tolerance of "sums to 1".
TOL == ONE \div 1000000
\* 1.0 as a score.
SCORE_ONE == 10 * 100

\* floor(p * q) for probabilities p, q in [0, 1].
FMul(p, q) ==
    LET ph == p \div HALF_BITS
        pl == p % HALF_BITS
        qh == q \div HALF_BITS
        ql == q % HALF_BITS
    IN ph * qh + ((ph * ql + pl * qh + ((pl * ql) \div HALF_BITS)) \div HALF_BITS)

\* floor(a / b) as a probability, for 0 <= a <= b, 0 < b < 2^30: binary long
\* division, bit by bit.
RECURSIVE FDivBits(_, _, _, _)
FDivBits(r, b, q, n) ==
    IF n = 0 THEN q
    ELSE IF 2 * r >= b THEN FDivBits(2 * r - b, b, 2 * q + 1, n - 1)
         ELSE FDivBits(2 * r, b, 2 * q, n - 1)

FDiv(a, b) == IF a = b THEN ONE ELSE FDivBits(a, b, 0, 30)

\* floor(sqrt(n)).
RECURSIVE ISqrtIter(_, _, _)
ISqrtIter(n, lo, hi) ==
    IF lo >= hi THEN lo
    ELSE LET mid == (lo + hi + 1) \div 2
         IN IF mid * mid <= n THEN ISqrtIter(n, mid, hi)
            ELSE ISqrtIter(n, lo, mid - 1)

ISqrt(n) == ISqrtIter(n, 0, Min2(n, 46340))

\* ------------------------------------------------------------------------
\* Board topology (game_state.py)
\* ------------------------------------------------------------------------
ROW_SIZES == <<4, 5, 6, 7, 6, 5, 4>>
NUM_TILES == 37

Tiles == 0 .. (NUM_TILES - 1)

\* sum(ROW_SIZES[:row])
RECURSIVE RowStart(_)
RowStart(row) == IF row = 0 THEN 0 ELSE RowStart(row - 1) + ROW_SIZES[row]

\* (row, col) of a tile id; rows are numbered from 0.  No row for an id of 37
\* or more (ValueError); a negative id lands in row 0 with a negative column.
RECURSIVE TileRowFrom(_, _, _)
TileRowFrom(tile_id, row, cumulative) ==
    IF row >= Len(ROW_SIZES) THEN <<-1, -1>>
    ELSE IF tile_id < cumulative + ROW_SIZES[row + 1]
         THEN <<row, tile_id - cumulative>>
         ELSE TileRowFrom(tile_id, row + 1, cumulative + ROW_SIZES[row + 1])

tile_to_rowcol(tile_id) == TileRowFrom(tile_id, 0, 0)

rowcol_to_tile(row, col) == RowStart(row) + col

get_adjacent_tiles(tile_id) ==
    LET rc == tile_to_rowcol(tile_id)
        row == rc[1]
        col == rc[2]
        this_size == ROW_SIZES[row + 1]
        same == (IF col > 0 THEN {rowcol_to_tile(row, col - 1)} ELSE {})
                  \cup (IF col < this_size - 1
                        THEN {rowcol_to_tile(row, col + 1)} ELSE {})
        Adj(adj_row) ==
            IF adj_row < 0 \/ adj_row >= Len(ROW_SIZES) THEN {}
            ELSE LET adj_size == ROW_SIZES[adj_row + 1]
                     cs == IF adj_size > this_size THEN {col, col + 1}
                           ELSE {col - 1, col}
                 IN {rowcol_to_tile(adj_row, c) :
                        c \in {c \in cs : 0 <= c /\ c < adj_size}}
    IN same \cup Adj(row - 1) \cup Adj(row + 1)

AdjacentTiles == Table([t \in Tiles |-> get_adjacent_tiles(t)])

VALID_NODES ==
    { <<0, 4, 5>>, <<0, 1, 5>>, <<1, 5, 6>>, <<1, 2, 6>>, <<2, 6, 7>>,
      <<2, 3, 7>>, <<3, 7, 8>>,
      <<4, 9, 10>>, <<4, 5, 10>>, <<5, 10, 11>>, <<5, 6, 11>>, <<6, 11, 12>>,
      <<6, 7, 12>>, <<7, 12, 13>>, <<7, 8, 13>>, <<8, 13, 14>>,
      <<9, 15, 16>>, <<9, 10, 16>>, <<10, 16, 17>>, <<10, 11, 17>>,
      <<11, 17, 18>>, <<11, 12, 18>>, <<12, 18, 19>>, <<12, 13, 19>>,
      <<13, 19, 20>>, <<13, 14, 20>>, <<14, 20, 21>>,
      <<15, 16, 22>>, <<16, 22, 23>>, <<16, 17, 23>>, <<17, 23, 24>>,
      <<17, 18, 24>>, <<18, 24, 25>>, <<18, 19, 25>>, <<19, 25, 26>>,
      <<19, 20, 26>>, <<20, 26, 27>>, <<20, 21, 27>>,
      <<22, 23, 28>>, <<23, 28, 29>>, <<23, 24, 29>>, <<24, 29, 30>>,
      <<24, 25, 30>>, <<25, 30, 31>>, <<25, 26, 31>>, <<26, 31, 32>>,
      <<26, 27, 32>>,
      <<28, 29, 33>>, <<29, 33, 34>>, <<29, 30, 34>>, <<30, 34, 35>>,
      <<30, 31, 35>>, <<31, 35, 36>>, <<31, 32, 36>> }

PORT_TILES == {0, 2, 8, 9, 21, 22, 32, 33, 35}

\* The table with a slip in the entry of tile 2: both of its access nodes are
\* written 1_2_6.
PORT_TILE_TO_NODES_repeated_node ==
    [t \in PORT_TILES |->
        CASE t = 0 -> << <<0, 1, 5>>, <<0, 4, 5>> >>
          [] t = 2 -> << <<1, 2, 6>>, <<1, 2, 6>> >>
          [] t = 8 -> << <<7, 8, 13>>, <<8, 13, 14>> >>
          [] t = 9 -> << <<4, 9, 10>>, <<9, 10, 16>> >>
          [] t = 21 -> << <<14, 20, 21>>, <<20, 21, 27>> >>
          [] t = 22 -> << <<16, 22, 23>>, <<22, 23, 28>> >>
          [] t = 32 -> << <<26, 27, 32>>, <<26, 31, 32>> >>
          [] t = 33 -> << <<28, 29, 33>>, <<29, 33, 34>> >>
          [] t = 35 -> << <<30, 31, 35>>, <<30, 34, 35>> >>]

PORT_TILE_TO_NODES ==
    Table([t \in PORT_TILES |->
        CASE t = 0 -> << <<0, 1, 5>>, <<0, 4, 5>> >>
          [] t = 2 -> << <<1, 2, 6>>, <<2, 6, 7>> >>
          [] t = 8 -> << <<7, 8, 13>>, <<8, 13, 14>> >>
          [] t = 9 -> << <<4, 9, 10>>, <<9, 10, 16>> >>
          [] t = 21 -> << <<14, 20, 21>>, <<20, 21, 27>> >>
          [] t = 22 -> << <<16, 22, 23>>, <<22, 23, 28>> >>
          [] t = 32 -> << <<26, 27, 32>>, <<26, 31, 32>> >>
          [] t = 33 -> << <<28, 29, 33>>, <<29, 33, 34>> >>
          [] t = 35 -> << <<30, 31, 35>>, <<30, 34, 35>> >>])

\* set(key.split("_")): the tile ids of a key.
KeyTiles(key) == Range(key)

\* The characters of str(t), a digit as its value.
Digits(t) == IF t < 10 THEN <<t>> ELSE <<t \div 10, t % 10>>

\* The characters of "_".join(str(t) for t in key); "_" sorts after every
\* digit, and is given the value 10.
RECURSIVE KeyChars(_)
KeyChars(key) ==
    IF Len(key) = 1 THEN Digits(key[1])
    ELSE Digits(key[1]) \o <<10>> \o KeyChars(Tail(key))

\* Python's < on strings.
RECURSIVE StrLess(_, _)
StrLess(a, b) ==
    IF b = <<>> THEN FALSE
    ELSE IF a = <<>> THEN TRUE
    ELSE IF Head(a) # Head(b) THEN Head(a) < Head(b)
    ELSE StrLess(Tail(a), Tail(b))

KeyLess(k1, k2) == StrLess(KeyChars(k1), KeyChars(k2))

\* sorted(keys) for a set of keys.
SortedKeys(keys) ==
    LET rank(k) == Cardinality({j \in keys : KeyLess(j, k)})
    IN List([i \in 1 .. Cardinality(keys) |-> CHOOSE k \in keys : rank(k) = i - 1])

\* all_nodes = sorted(VALID_NODES)
all_nodes == SortedKeys(VALID_NODES)

\* ------------------------------------------------------------------------
\* Game state (game_state.py: Meta, Board, GameState)
\* ------------------------------------------------------------------------
\* A dict is a function on its keys; d[k] = v is DictSet, the empty dict <<>>.
DictSet(d, k, v) ==
    Table([j \in (DOMAIN d) \cup {k} |-> IF j = k THEN v ELSE d[j]])

\* An Optional value: None is <<>>, a value v is <<v>>.
None == <<>>
Some(v) == <<v>>

\* The fields of a GameState the engine reads and writes: map.tiles,
\* map.robber, map.ports, map.nodes, map.edges, meta.p_curr and the ids of
\* players, in the order of the list.
GameState(tiles, robber, ports, nodes, edges, p_curr, players) ==
    [tiles |-> tiles, robber |-> robber, ports |-> ports,
     nodes |-> nodes, edges |-> edges, p_curr |-> p_curr, players |-> players]

\* The ids of the four players of a snapshot.
SAMPLE_PLAYERS == <<0, 1, 2, 3>>

\* ------------------------------------------------------------------------
\* Boards
\* ------------------------------------------------------------------------
TilesOf(s) == Table([t \in 0 .. (Len(s) - 1) |-> s[t + 1]])

\* The 37-tile layout of manual_processing/test_visualization.py.
SAMPLE_TILES ==
    TilesOf(<< <<5, -1>>, <<6, 0>>, <<2, -1>>, <<6, 0>>,
               <<6, 0>>, <<3, 6>>, <<2, 2>>, <<0, 5>>, <<3, -1>>,
               <<5, -1>>, <<4, 3>>, <<4, 9>>, <<1, 10>>, <<1, 8>>, <<6, 0>>,
               <<6, 0>>, <<0, 8>>, <<0, 4>>, <<4, 11>>, <<2, 3>>, <<5, 0>>, <<1, -1>>,
               <<5, -1>>, <<2, 10>>, <<3, 5>>, <<1, 6>>, <<3, 4>>, <<6, 0>>,
               <<6, 0>>, <<0, 9>>, <<2, 12>>, <<3, 11>>, <<4, -1>>,
               <<5, -1>>, <<6, 0>>, <<0, -1>>, <<6, 0>> >>)

\* ------------------------------------------------------------------------
\* Ports (game_state.py)
\* ------------------------------------------------------------------------
\* The port tiles of `tiles`: number_token == -1 at one of the 9 positions.
PortTilesIn(tiles) ==
    {t \in (DOMAIN tiles) \cap PORT_TILES : tiles[t][2] = -1}

generate_ports(tiles) ==
    LET Ports(pts) ==
            Table([k \in UNION {Range(PORT_TILE_TO_NODES[t]) : t \in pts} |->
                tiles[CHOOSE t \in pts : k \in Range(PORT_TILE_TO_NODES[t])][1]])
    IN Ports(PortTilesIn(tiles))

\* The keys of PORT_TILE_TO_NODES in the order .items() yields them.
PORT_TILE_ORDER == <<0, 2, 8, 9, 21, 22, 32, 33, 35>>

\* EXPECTED_PORT_COUNTS in the order .items() yields it: <<type, count>>.
EXPECTED_PORT_COUNTS ==
    << <<5, 4>>, <<0, 1>>, <<1, 1>>, <<2, 1>>, <<3, 1>>, <<4, 1>> >>

\* The concatenation of a list of lists.
RECURSIVE Flatten(_)
Flatten(ss) == IF ss = <<>> THEN <<>> ELSE Head(ss) \o Flatten(Tail(ss))

\* One error item <<kind, key>> for every key of a list.
Tag(kind, keys) == List([i \in DOMAIN keys |-> <<kind, keys[i]>>])

\* The keys of generate_ports(tiles) in the order the dict yields them.
TilesPortsKeys(tiles) ==
    Flatten(List([i \in DOMAIN PORT_TILE_ORDER |->
        IF PORT_TILE_ORDER[i] \in PortTilesIn(tiles)
        THEN PORT_TILE_TO_NODES[PORT_TILE_ORDER[i]] ELSE <<>>]))

\* validate_ports, check 1: pair consistency.  An error string is modelled
\* by its kind and the tile, count, type or node it names.
PairErrors(ports) ==
    Flatten(List([i \in DOMAIN PORT_TILE_ORDER |->
        LET tile_id == PORT_TILE_ORDER[i]
            node_a == PORT_TILE_TO_NODES[tile_id][1]
            node_b == PORT_TILE_TO_NODES[tile_id][2]
            a_present == node_a \in DOMAIN ports
            b_present == node_b \in DOMAIN ports
        IN IF a_present /\ b_present
           THEN IF ports[node_a] # ports[node_b]
                THEN << <<"pair_mismatch", tile_id>> >> ELSE <<>>
           ELSE IF a_present # b_present
                THEN << <<"incomplete_pair", tile_id>> >> ELSE <<>>]))

\* validate_ports, check 2: len(ports) != 18.
CountErrors(ports) ==
    IF Cardinality(DOMAIN ports) # 18
    THEN << <<"entry_count", Cardinality(DOMAIN ports)>> >> ELSE <<>>

\* type_counts.get(ptype, 0): the port tiles whose node_a is in ports with
\* that type.
TypeCount(ports, ptype) ==
    Cardinality({t \in PORT_TILES :
        /\ PORT_TILE_TO_NODES[t][1] \in DOMAIN ports
        /\ ports[PORT_TILE_TO_NODES[t][1]] = ptype})

\* validate_ports, check 2: the distribution.
DistributionErrors(ports) ==
    Flatten(List([i \in DOMAIN EXPECTED_PORT_COUNTS |->
        IF TypeCount(ports, EXPECTED_PORT_COUNTS[i][1]) # EXPECTED_PORT_COUNTS[i][2]
        THEN << <<"distribution", EXPECTED_PORT_COUNTS[i][1]>> >> ELSE <<>>]))

\* validate_ports, check 3: tiles <-> ports agreement.  The keys of the
\* declared ports are visited in sorted order.
AgreementErrors(tiles, ports) ==
    LET Errors(tiles_ports, keys) ==
            Tag("conflict", SelectSeq(keys, LAMBDA k :
                    k \in DOMAIN ports /\ ports[k] # tiles_ports[k]))
              \o Tag("unknown_port_node",
                     SelectSeq(SortedKeys(DOMAIN ports),
                               LAMBDA k : k \notin DOMAIN tiles_ports))
              \o Tag("missing_port_node",
                     SelectSeq(keys, LAMBDA k : k \notin DOMAIN ports))
    IN Errors(generate_ports(tiles), TilesPortsKeys(tiles))

\* A validation that stops at the first error it finds.
validate_ports_first_error(tiles, ports) ==
    Prefix(PairErrors(ports) \o CountErrors(ports) \o DistributionErrors(ports)
             \o AgreementErrors(tiles, ports), 1)

\* A validation that leaves out check 3.
validate_ports_without_agreement(tiles, ports) ==
    PairErrors(ports) \o CountErrors(ports) \o DistributionErrors(ports)

\* The list of errors; empty means valid.
validate_ports(tiles, ports) ==
    PairErrors(ports) \o CountErrors(ports) \o DistributionErrors(ports)
      \o AgreementErrors(tiles, ports)

\* A from_json that validates the declared ports as they are, without
\* deriving them from the tiles first.
from_json_without_repair(data) ==
    LET Validated(ports, errors) ==
            IF errors # <<>>
            THEN [ok |-> FALSE, errors |-> errors, gs |-> None]
            ELSE [ok |-> TRUE, errors |-> <<>>,
                  gs |-> Some(GameState(data.tiles, data.robber, ports,
                                        data.nodes, data.edges, data.p_curr,
                                        data.players))]
        Repaired(ports) == Validated(ports, validate_ports(data.tiles, ports))
    IN Repaired(data.ports)

\* GameState.from_json(data): data holds map.tiles, map.robber, map.ports,
\* map.nodes, map.edges, meta.p_curr and the ids of players; a list or dict the
\* snapshot leaves out is empty.  The result is the GameState, or the
\* ValueError with the items of its message.
from_json(data) ==
    LET Validated(ports, errors) ==
            IF errors # <<>>
            THEN [ok |-> FALSE, errors |-> errors, gs |-> None]
            ELSE [ok |-> TRUE, errors |-> <<>>,
                  gs |-> Some(GameState(data.tiles, data.robber, ports,
                                        data.nodes, data.edges, data.p_curr,
                                        data.players))]
        Repaired(ports) == Validated(ports, validate_ports(data.tiles, ports))
    IN Repaired(IF DOMAIN data.ports = {} /\ DOMAIN data.tiles # {}
                THEN generate_ports(data.tiles) ELSE data.ports)

SAMPLE_ROBBER == 20

\* The sample layout, and the same layout with the robber moved to tile 11.
BOARDS ==
    << [tiles |-> SAMPLE_TILES, robber |-> SAMPLE_ROBBER,
        ports |-> generate_ports(SAMPLE_TILES)],
       [tiles |-> SAMPLE_TILES, robber |-> 11,
        ports |-> generate_ports(SAMPLE_TILES)] >>

\* ------------------------------------------------------------------------
\* Settlement scoring (settle_eval_simple.py)
\* ------------------------------------------------------------------------
Resources == 0 .. 4

\* Tenths: [1.0, 1.0, 0.9, 1.1, 1.1].
BASE_RESOURCE_STRENGTH == <<10, 10, 9, 11, 11>>
PORT_BONUS == 2
PRIME_VARIATE_BONUS == 2
\* Tenths: 0.8.
PARITY_PREFERENCE == 8
\* Tenths: [1.0, 1.5, 1.0, 1.0, 1.0].
EVAL_WEIGHTS == <<10, 15, 10, 10, 10>>
\* Tenths: 2.5.
K == 25

number_to_pips(number_token) ==
    CASE number_token = 2 -> 1
      [] number_token = 3 -> 2
      [] number_token = 4 -> 3
      [] number_token = 5 -> 4
      [] number_token = 6 -> 5
      [] number_token = 8 -> 5
      [] number_token = 9 -> 4
      [] number_token = 10 -> 3
      [] number_token = 11 -> 2
      [] number_token = 12 -> 1
      [] OTHER -> 0

\* The pips a tile adds to resource r.
TilePips(tiles, tid, r) ==
    IF tiles[tid][1] = r /\ tiles[tid][2] >= 2
    THEN number_to_pips(tiles[tid][2]) ELSE 0

RECURSIVE SumTiles(_, _, _)
SumTiles(tiles, r, tid) ==
    IF tid \notin DOMAIN tiles THEN 0
    ELSE TilePips(tiles, tid, r) + SumTiles(tiles, r, tid + 1)

total_production_by_resource(gs) ==
    Table([r \in Resources |-> SumTiles(gs.tiles, r, 0)])

\* Wood(0)<->Brick(1), Grain(3)<->Ore(4); Wool(2) has none.
COMPLEMENT == (0 :> 1) @@ (1 :> 0) @@ (3 :> 4) @@ (4 :> 3)

\* math.pow(raw, 0.5) of raw = base * overall * pairwise, in thousandths.
compute_relative_strengths(total_prod) ==
    Table([r \in Resources |->
        LET base == BASE_RESOURCE_STRENGTH[r + 1]
            overall_n == IF total_prod[r] > 0 THEN 1 ELSE 20
            overall_d == IF total_prod[r] > 0 THEN total_prod[r] ELSE 1
            has_comp == r \in DOMAIN COMPLEMENT /\ total_prod[COMPLEMENT[r]] > 0
            pairwise_n == IF has_comp THEN total_prod[r] ELSE 1
            pairwise_d == IF has_comp THEN total_prod[COMPLEMENT[r]] ELSE 1
            raw_e6 == (base * overall_n * pairwise_n * 100000)
                          \div (overall_d * pairwise_d)
        IN IF base * overall_n * pairwise_n > 0 THEN ISqrt(raw_e6) ELSE 0])

compute_port_strengths(total_prod) ==
    LET Strengths(dampened_yields, norm) ==
            Table([t \in 0 .. 5 |->
                IF t = 5 THEN SCORE_ONE
                ELSE (dampened_yields[t] * SCORE_ONE) \div norm])
        Norm(second_highest) ==
            IF second_highest > 0 THEN second_highest ELSE SCORE_ONE
        \* sorted(dampened_yields, reverse=True)[1]
        SecondHighest(dampened_yields) ==
            CHOOSE v \in Range(dampened_yields) :
                /\ Cardinality({r \in Resources : dampened_yields[r] > v}) <= 1
                /\ Cardinality({r \in Resources : dampened_yields[r] >= v}) >= 2
        WithYields(dampened_yields) ==
            Strengths(dampened_yields, Norm(SecondHighest(dampened_yields)))
    IN WithYields(Table([r \in Resources |->
            IF total_prod[r] > 0 THEN ISqrt(total_prod[r] * 1000000) ELSE 0]))

spot_production(gs, node_key) ==
    Table([r \in Resources |->
        LET Pips(i) ==
                IF node_key[i] # gs.robber
                THEN TilePips(gs.tiles, node_key[i], r) ELSE 0
        IN Pips(1) + Pips(2) + Pips(3)])

\* The score of a spot, in thousandths.
score_settlement(gs, node_key) ==
    LET Total(prod, rel_strengths, port_strengths) ==
            LET raw_prod == prod[0] + prod[1] + prod[2] + prod[3] + prod[4]
                scarcity_weighted ==
                    prod[0] * rel_strengths[0] + prod[1] * rel_strengths[1]
                      + prod[2] * rel_strengths[2] + prod[3] * rel_strengths[3]
                      + prod[4] * rel_strengths[4]
                port_bonus_val ==
                    IF node_key \in DOMAIN gs.ports
                    THEN (IF gs.ports[node_key] \in DOMAIN port_strengths
                          THEN port_strengths[gs.ports[node_key]] ELSE 0) * PORT_BONUS
                    ELSE 0
                distinct_resources == Cardinality({r \in Resources : prod[r] > 0})
                prime_variate_val ==
                    IF raw_prod >= 10 /\ distinct_resources >= 3
                    THEN PRIME_VARIATE_BONUS * SCORE_ONE ELSE 0
                Parity(a, b) ==
                    IF prod[a] > 0 /\ prod[b] > 0
                    THEN (PARITY_PREFERENCE * Min2(prod[a], prod[b]) * SCORE_ONE) \div 10
                    ELSE 0
                parity_val == Parity(0, 1) + Parity(3, 4)
            IN (raw_prod * SCORE_ONE * EVAL_WEIGHTS[1]
                  + scarcity_weighted * EVAL_WEIGHTS[2]
                  + port_bonus_val * EVAL_WEIGHTS[3]
                  + prime_variate_val * EVAL_WEIGHTS[4]
                  + parity_val * EVAL_WEIGHTS[5]) \div 10
        WithProd(total_prod) ==
            Total(spot_production(gs, node_key),
                  compute_relative_strengths(total_prod),
                  compute_port_strengths(total_prod))
    IN WithProd(total_production_by_resource(gs))

\* A distance rule that is too strict: a node sharing any tile with an
\* occupied node is blocked.
BlockedSharingATile(gs, candidates) ==
    (DOMAIN gs.nodes)
      \cup {node \in candidates :
              \E occ_key \in DOMAIN gs.nodes :
                  KeyTiles(occ_key) \cap KeyTiles(node) # {}}

\* A blocked set that forgets the distance rule: the occupied nodes only.
BlockedOccupiedOnly(gs, candidates) == DOMAIN gs.nodes

\* rank_all_spots(gs, top_n): top_n is None or Some(n).
Blocked(gs, candidates) ==
    (DOMAIN gs.nodes)
      \cup {node \in candidates :
              \E occ_key \in DOMAIN gs.nodes :
                  Cardinality(KeyTiles(occ_key) \cap KeyTiles(node)) = 2}

\* A ranking that leaves the scored spots in the order of all_nodes.
rank_all_spots_unsorted(gs, top_n) ==
    LET Cut(results) ==
            IF top_n # None THEN Prefix(results, top_n[1]) ELSE results
        ScoreAll(open_spots) ==
            List([i \in DOMAIN open_spots |->
                <<open_spots[i], score_settlement(gs, open_spots[i])>>])
        Open(blocked) == SelectSeq(all_nodes, LAMBDA n : n \notin blocked)
    IN Cut(ScoreAll(Open(Blocked(gs, VALID_NODES))))

rank_all_spots(gs, top_n) ==
    LET Cut(results) ==
            IF top_n # None THEN Prefix(results, top_n[1]) ELSE results
        ScoreAll(open_spots) ==
            SortDesc(List([i \in DOMAIN open_spots |->
                <<open_spots[i], score_settlement(gs, open_spots[i])>>]))
        Open(blocked) == SelectSeq(all_nodes, LAMBDA n : n \notin blocked)
    IN Cut(ScoreAll(Open(Blocked(gs, VALID_NODES))))

\* ------------------------------------------------------------------------
\* Roads (settle_eval_simple.py)
\* ------------------------------------------------------------------------
is_land_tile(tiles, tile_id) ==
    tiles[tile_id][1] # 6 /\ tiles[tile_id][2] # -1

is_valid_road_edge(tiles, edge_key) ==
    is_land_tile(tiles, edge_key[1]) \/ is_land_tile(tiles, edge_key[2])

SortedPair(a, b) == IF a <= b THEN <<a, b>> ELSE <<b, a>>

get_node_edges(node_key) ==
    << SortedPair(node_key[1], node_key[2]),
       SortedPair(node_key[1], node_key[3]),
       SortedPair(node_key[2], node_key[3]) >>

\* sorted([t1, t2, other_tile]) as a key.
SortedTriple(tiles3) ==
    LET lo == CHOOSE t \in tiles3 : \A u \in tiles3 : t <= u
        hi == CHOOSE t \in tiles3 : \A u \in tiles3 : t >= u
        mid == CHOOSE t \in tiles3 : t # lo /\ t # hi
    IN <<lo, mid, hi>>

\* The valid node on the other side of edge_key, or None.  Two adjacent tiles
\* have at most two common neighbours, so at most one candidate is left once
\* from_node's third tile is discarded.
get_other_node(edge_key, from_node) ==
    LET edge_tiles == KeyTiles(edge_key)
        third_tile == CHOOSE t \in KeyTiles(from_node) : t \notin edge_tiles
        common == (AdjacentTiles[edge_key[1]] \cap AdjacentTiles[edge_key[2]])
                      \ {third_tile}
        Pick(keys) == IF keys = {} THEN None ELSE Some(CHOOSE k \in keys : TRUE)
    IN Pick({SortedTriple(edge_tiles \cup {o}) : o \in common} \cap VALID_NODES)

\* visited is the dict in insertion order: a sequence of
\* <<node, dist, first_edge>>; queue holds the same triples.
VisitedKeys(visited) == {visited[i][1] : i \in DOMAIN visited}

\* The loop over the edges of `current` without the test for a road on the
\* edge: the search runs through occupied edges.
RECURSIVE BfsEdges_through_roads(_, _, _, _, _)
BfsEdges_through_roads(gs, cur, i, visited, queue) ==
    IF i > 3 THEN <<visited, queue>>
    ELSE LET Visit(edge, neighbor) ==
                 IF \/ ~is_valid_road_edge(gs.tiles, edge)
                    \/ neighbor = None
                    \/ neighbor[1] \in VisitedKeys(visited)
                 THEN BfsEdges_through_roads(gs, cur, i + 1, visited, queue)
                 ELSE LET fe == IF cur[3] # None THEN cur[3] ELSE Some(edge)
                          entry == <<neighbor[1], cur[2] + 1, fe>>
                      IN BfsEdges_through_roads(gs, cur, i + 1,
                                                Append(visited, entry),
                                                Append(queue, entry))
             WithEdge(edge) == Visit(edge, get_other_node(edge, cur[1]))
         IN WithEdge(get_node_edges(cur[1])[i])

\* The for-loop over the three edges of `current`, from edge number i.
RECURSIVE BfsEdges(_, _, _, _, _)
BfsEdges(gs, cur, i, visited, queue) ==
    IF i > 3 THEN <<visited, queue>>
    ELSE LET Visit(edge, neighbor) ==
                 IF \/ ~is_valid_road_edge(gs.tiles, edge)
                    \/ edge \in DOMAIN gs.edges
                    \/ neighbor = None
                    \/ neighbor[1] \in VisitedKeys(visited)
                 THEN BfsEdges(gs, cur, i + 1, visited, queue)
                 ELSE LET fe == IF cur[3] # None THEN cur[3] ELSE Some(edge)
                          entry == <<neighbor[1], cur[2] + 1, fe>>
                      IN BfsEdges(gs, cur, i + 1, Append(visited, entry),
                                  Append(queue, entry))
             WithEdge(edge) == Visit(edge, get_other_node(edge, cur[1]))
         IN WithEdge(get_node_edges(cur[1])[i])

RECURSIVE BfsLoop(_, _, _, _)
BfsLoop(gs, max_dist, visited, queue) ==
    IF queue = <<>> THEN visited
    ELSE IF Head(queue)[2] >= max_dist
         THEN BfsLoop(gs, max_dist, visited, Tail(queue))
         ELSE LET Continue(r) == BfsLoop(gs, max_dist, r[1], r[2])
              IN Continue(BfsEdges(gs, Head(queue), 1, visited, Tail(queue)))

bfs_from_node(gs, start, max_dist) ==
    BfsLoop(gs, max_dist, << <<start, 0, None>> >>, << <<start, 0, None>> >>)

\* ------------------------------------------------------------------------
\* Softmax (settle_eval_simple.py)
\* ------------------------------------------------------------------------
\* math.exp(-2^j / 1000) for j = 0 .. 14, as probabilities.
ExpTable ==
    << 1072668619, 1071596486, 1069455435, 1065186158, 1056698664,
       1039926024, 1007175199, 944735372, 831228610, 643488952,
       385640219, 138504783, 17866096, 297276, 82 >>

\* math.exp(-d / 1000) as a probability, d >= 0: the product of the table's
\* entries for the bits of d; 0 below the resolution.
RECURSIVE ExpBits(_, _, _)
ExpBits(d, j, acc) ==
    IF d = 0 THEN acc
    ELSE ExpBits(d \div 2, j + 1,
                 IF d % 2 = 1 THEN FMul(acc, ExpTable[j]) ELSE acc)

ExpNeg(d) == IF d >= 2 ^ 15 THEN 0 ELSE ExpBits(d, 1, ONE)

RECURSIVE MaxSeq(_)
MaxSeq(s) ==
    IF Len(s) = 1 THEN s[1]
    ELSE LET Max(m) == IF s[1] >= m THEN s[1] ELSE m
         IN Max(MaxSeq(Tail(s)))

\* A softmax that returns the exponentials without dividing by their sum.
softmax_unnormalized(values, spread_factor) ==
    LET Exps(scaled, m) ==
            List([i \in DOMAIN values |-> ExpNeg(m - scaled[i]) \div 4])
        WithScaled(scaled) == Exps(scaled, MaxSeq(scaled))
    IN WithScaled(List([i \in DOMAIN values |->
            IF spread_factor > 0
            THEN (values[i] * spread_factor) \div 10 ELSE values[i]]))

\* values are scores (thousandths), spread_factor is in tenths; the result is
\* a list of probabilities.  The exponentials are kept to 28 bits so that
\* their sum stays below 2^30.
softmax(values, spread_factor) ==
    LET Normalize(exps, s) == List([i \in DOMAIN values |-> FDiv(exps[i], s)])
        WithExps(exps) == Normalize(exps, SumSeq(exps))
        Exps(scaled, m) ==
            WithExps(List([i \in DOMAIN values |-> ExpNeg(m - scaled[i]) \div 4]))
        WithScaled(scaled) == Exps(scaled, MaxSeq(scaled))
    IN WithScaled(List([i \in DOMAIN values |->
            IF spread_factor > 0
            THEN (values[i] * spread_factor) \div 10 ELSE values[i]]))

\* ------------------------------------------------------------------------
\* Road selection and the decision rule (settle_eval_simple.py)
\* ------------------------------------------------------------------------
\* The loop over reachable.items(): best is None or
\* Some(<<best_edge, best_score, node>>), node being the node of the pass
\* that set best_edge.
RECURSIVE PickBest(_, _, _, _, _, _)
PickBest(reachable, i, excluded_keys, blocked, score_lookup, best) ==
    IF i > Len(reachable) THEN best
    ELSE LET node == reachable[i][1]
             skip == \/ reachable[i][2] = 0
                     \/ node \in excluded_keys
                     \/ node \in blocked
                     \/ node \notin DOMAIN score_lookup
             better == best = None \/ score_lookup[node] > best[1][2]
         IN PickBest(reachable, i + 1, excluded_keys, blocked, score_lookup,
                     IF ~skip /\ better
                     THEN Some(<<reachable[i][3][1], score_lookup[node], node>>)
                     ELSE best)

\* The node whose pass of the loop set the best_edge that _pick_road returns,
\* None when the loop sets none.
road_target(gs, settle_spot, score_lookup, excluded_keys) ==
    LET Target(best) == IF best # None THEN Some(best[1][3]) ELSE None
        Search(reachable) ==
            Target(PickBest(reachable, 1, excluded_keys,
                            Blocked(gs, VisitedKeys(reachable)), score_lookup, None))
    IN Search(bfs_from_node(gs, settle_spot, 3))

\* A road selection without the search for a free edge: when the search finds
\* no target, the first edge of the node is returned.
pick_road_without_fallback(gs, settle_spot, score_lookup, excluded_keys) ==
    LET edges == get_node_edges(settle_spot)
        Choose(best) == IF best # None THEN best[1][1] ELSE edges[1]
        Search(reachable) ==
            Choose(PickBest(reachable, 1, excluded_keys,
                            Blocked(gs, VisitedKeys(reachable)), score_lookup, None))
    IN Search(bfs_from_node(gs, settle_spot, 3))

pick_road(gs, settle_spot, score_lookup, excluded_keys) ==
    LET edges == get_node_edges(settle_spot)
        Fallback(ok) == IF ok # <<>> THEN ok[1] ELSE edges[1]
        Choose(best) ==
            IF best # None THEN best[1][1]
            ELSE Fallback(SelectSeq(edges, LAMBDA e :
                     is_valid_road_edge(gs.tiles, e) /\ e \notin DOMAIN gs.edges))
        Search(reachable) ==
            Choose(PickBest(reachable, 1, excluded_keys,
                            Blocked(gs, VisitedKeys(reachable)), score_lookup, None))
    IN Search(bfs_from_node(gs, settle_spot, 3))

\* {node: score for node, score in ranked}
ScoreLookup(ranked) ==
    Table([n \in {ranked[i][1] : i \in DOMAIN ranked} |->
        (CHOOSE e \in Range(ranked) : e[1] = n)[2]])

\* {node for node, _ in ranked[:12]}
Top12Keys(ranked) == {ranked[i][1] : i \in DOMAIN Prefix(ranked, 12)}

\* A decision that cuts the ranking one place too early: ranked[:n - 1].
settle_decision_one_short(gs) ==
    LET Options(top, probs, score_lookup, top12_keys) ==
            List([i \in DOMAIN top |->
                << <<top[i][1], pick_road(gs, top[i][1], score_lookup, top12_keys)>>,
                   probs[i] >>])
        Decide(ranked, top) ==
            IF ranked = <<>> THEN <<>>
            ELSE Options(top, softmax(List([i \in DOMAIN top |-> top[i][2]]), K),
                         ScoreLookup(ranked), Top12Keys(ranked))
        WithRanked(ranked) ==
            Decide(ranked, Prefix(ranked, Min2(3, Len(ranked)) - 1))
    IN WithRanked(rank_all_spots(gs, None))

\* A list of <<<<settle_spot, road_spot>>, probability>>.
settle_decision(gs) ==
    LET Options(top, probs, score_lookup, top12_keys) ==
            List([i \in DOMAIN top |->
                << <<top[i][1], pick_road(gs, top[i][1], score_lookup, top12_keys)>>,
                   probs[i] >>])
        Decide(ranked, top) ==
            IF ranked = <<>> THEN <<>>
            ELSE Options(top, softmax(List([i \in DOMAIN top |-> top[i][2]]), K),
                         ScoreLookup(ranked), Top12Keys(ranked))
        WithRanked(ranked) == Decide(ranked, Prefix(ranked, Min2(3, Len(ranked))))
    IN WithRanked(rank_all_spots(gs, None))

\* ------------------------------------------------------------------------
\* Top-x option picker (settle_options.py)
\* ------------------------------------------------------------------------
\* The placeholder hook: currently always the empty list.
extend_option(gs) == <<>>

\* best[node_key] = max(best.get(node_key, -inf), sc) for every pair of a
\* list, on top of the dict best; a dict is a list of pairs in insertion order.
\* A key enters the dict where it first occurs and ends with the largest score
\* of its occurrences.
MergeBest(best, pairs) ==
    LET Merge(all) ==
            LET MaxOf(k) ==
                    CHOOSE v \in {all[j][2] : j \in {j \in DOMAIN all : all[j][1] = k}} :
                        \A j \in DOMAIN all : all[j][1] = k => all[j][2] <= v
                Result(firsts) ==
                    List([p \in DOMAIN firsts |->
                        <<firsts[p][2], MaxOf(firsts[p][2])>>])
            IN Result(SelectSeq(List([i \in DOMAIN all |-> <<i, all[i][1]>>]),
                          LAMBDA e : \A j \in 1 .. (e[1] - 1) : all[j][1] # e[2]))
    IN Merge(best \o pairs)

\* A picker that cuts the merged list one place too late: merged[:x + 1].
top_settle_spots_one_more(gs, x) ==
    LET scored == rank_all_spots(gs, None)
        extras == extend_option(gs)
        best == MergeBest(MergeBest(<<>>, scored), extras)
    IN Prefix(SortDesc(best), x + 1)

top_settle_spots(gs, x) ==
    LET scored == rank_all_spots(gs, None)
        extras == extend_option(gs)
        best == MergeBest(MergeBest(<<>>, scored), extras)
    IN Prefix(SortDesc(best), x)

\* ------------------------------------------------------------------------
\* Draft simulator (settle_sim.py)
\* ------------------------------------------------------------------------
MAX_WINDOW == 20
SETTLE_ORDER == <<0, 1, 2, 3, 3, 2, 1, 0>>

\* gs.model_copy(deep=True) in heap h whose next free reference is nid.
model_copy(h, nid, g) ==
    [heap |-> Table([o \in (DOMAIN h) \cup {nid} |-> IF o = nid THEN h[g] ELSE h[o]]),
     next |-> nid + 1,
     ref |-> nid]

\* A placement written into gs itself, without the deep copy.
apply_placement_in_place(h, nid, g, settle_spot, road_spot, player_id) ==
    [heap |-> Table([h EXCEPT
                ![g].nodes = DictSet(@, settle_spot, <<player_id, 1>>),
                ![g].edges = DictSet(@, road_spot, player_id)]),
     next |-> nid,
     ref |-> g]

\* A placement that records the settlement and the road for player 0, whoever
\* acts.
apply_placement_for_player_0(h, nid, g, settle_spot, road_spot, player_id) ==
    LET Place(c) ==
            [heap |-> Table([c.heap EXCEPT
                        ![c.ref].nodes = DictSet(@, settle_spot, <<0, 1>>),
                        ![c.ref].edges = DictSet(@, road_spot, 0)]),
             next |-> c.next,
             ref |-> c.ref]
    IN Place(model_copy(h, nid, g))

\* A placement that records the settlement and leaves the road out.
apply_placement_without_road(h, nid, g, settle_spot, road_spot, player_id) ==
    LET Place(c) ==
            [heap |-> Table([c.heap EXCEPT
                        ![c.ref].nodes = DictSet(@, settle_spot, <<player_id, 1>>)]),
             next |-> c.next,
             ref |-> c.ref]
    IN Place(model_copy(h, nid, g))

\* Returns the heap after the call, the next free reference and the
\* reference of the new state.
apply_placement(h, nid, g, settle_spot, road_spot, player_id) ==
    LET Place(c) ==
            [heap |-> Table([c.heap EXCEPT
                        ![c.ref].nodes = DictSet(@, settle_spot, <<player_id, 1>>),
                        ![c.ref].edges = DictSet(@, road_spot, player_id)]),
             next |-> c.next,
             ref |-> c.ref]
    IN Place(model_copy(h, nid, g))

\* Pruning that keeps the top max_window cases and does not rescale them.
prune_without_normalize(cases, max_window) ==
    IF Len(cases) <= max_window THEN cases
    ELSE Prefix(SortDesc(cases), max_window)

\* Pruning that cuts one place too late: cases[:max_window + 1].
prune_one_too_many(cases, max_window) ==
    IF Len(cases) <= max_window THEN cases
    ELSE LET Normalize(kept, total) ==
                 IF total > 0
                 THEN List([i \in DOMAIN kept |->
                          <<kept[i][1], FDiv(kept[i][2], total)>>])
                 ELSE kept
             WithKept(kept) ==
                 Normalize(kept, SumSeq(List([i \in DOMAIN kept |-> kept[i][2]])))
         IN WithKept(Prefix(SortDesc(cases), max_window + 1))

\* Pruning that keeps the first max_window cases of the list as it comes,
\* without sorting it.
prune_keeping_the_first(cases, max_window) ==
    IF Len(cases) <= max_window THEN cases
    ELSE LET Normalize(kept, total) ==
                 IF total > 0
                 THEN List([i \in DOMAIN kept |->
                          <<kept[i][1], FDiv(kept[i][2], total)>>])
                 ELSE kept
             WithKept(kept) ==
                 Normalize(kept, SumSeq(List([i \in DOMAIN kept |-> kept[i][2]])))
         IN WithKept(Prefix(cases, max_window))

\* cases is a list of <<state reference, probability>>.
prune_and_normalize(cases, max_window) ==
    IF Len(cases) <= max_window THEN cases
    ELSE LET Normalize(kept, total) ==
                 IF total > 0
                 THEN List([i \in DOMAIN kept |->
                          <<kept[i][1], FDiv(kept[i][2], total)>>])
                 ELSE kept
             WithKept(kept) ==
                 Normalize(kept, SumSeq(List([i \in DOMAIN kept |-> kept[i][2]])))
         IN WithKept(Prefix(SortDesc(cases), max_window))

\* The loop over one case's decisions, from decision number i.
\* acc = [heap, next, new_cases].
RECURSIVE ExpandDecisions(_, _, _, _, _, _)
ExpandDecisions(acc, sim_gs, case_prob, decisions, i, acting_player) ==
    IF i > Len(decisions) THEN acc
    ELSE LET d == decisions[i]
             Placed(r) ==
                 ExpandDecisions(
                     [heap |-> r.heap, next |-> r.next,
                      new_cases |-> Append(acc.new_cases,
                                           <<r.ref, FMul(case_prob, d[2])>>)],
                     sim_gs, case_prob, decisions, i + 1, acting_player)
         IN Placed(apply_placement(acc.heap, acc.next, sim_gs, d[1][1], d[1][2],
                                   acting_player))

\* The loop over the cases that drops a case without decisions instead of
\* appending it to new_cases.
RECURSIVE ExpandCases_dropping(_, _, _, _)
ExpandCases_dropping(acc, cs, i, acting_player) ==
    IF i > Len(cs) THEN acc
    ELSE LET case_gs == cs[i][1]
             case_prob == cs[i][2]
             Expand(c, h1, decisions) ==
                 ExpandDecisions(
                     [heap |-> h1, next |-> c.next, new_cases |-> acc.new_cases],
                     c.ref, case_prob, decisions, 1, acting_player)
             Decide(c, h1) == Expand(c, h1, settle_decision(h1[c.ref]))
             Copied(c) ==
                 Decide(c, Table([c.heap EXCEPT ![c.ref].p_curr = acting_player]))
             Rest(a) == ExpandCases_dropping(a, cs, i + 1, acting_player)
         IN Rest(Copied(model_copy(acc.heap, acc.next, case_gs)))

\* The loop "for case_gs, case_prob in cases", from case number i.
RECURSIVE ExpandCases(_, _, _, _)
ExpandCases(acc, cs, i, acting_player) ==
    IF i > Len(cs) THEN acc
    ELSE LET case_gs == cs[i][1]
             case_prob == cs[i][2]
             Expand(c, h1, decisions) ==
                 IF decisions = <<>>
                 THEN [heap |-> h1, next |-> c.next,
                       new_cases |-> Append(acc.new_cases, <<case_gs, case_prob>>)]
                 ELSE ExpandDecisions(
                         [heap |-> h1, next |-> c.next, new_cases |-> acc.new_cases],
                         c.ref, case_prob, decisions, 1, acting_player)
             Decide(c, h1) == Expand(c, h1, settle_decision(h1[c.ref]))
             Copied(c) ==
                 Decide(c, Table([c.heap EXCEPT ![c.ref].p_curr = acting_player]))
             Rest(a) == ExpandCases(a, cs, i + 1, acting_player)
         IN Rest(Copied(model_copy(acc.heap, acc.next, case_gs)))

\* ------------------------------------------------------------------------
\* Robber prediction (robber_predict.py) and board evaluation (init_eval.py)
\* ------------------------------------------------------------------------
\* What a call gives back: the value it returns, or the error it raises.
Returned(v) == [error |-> "", value |-> v]
Raised(e) == [error |-> e, value |-> None]

\* Tenths: 0.6.
ROBBER_DAMPENING_FACTOR == 6

\* Tenths: 1.0 and 1.5 (init_eval.py).
NO_WHEAT == 10
TARGET_PENALTY == 15

\* The parameters of _compute_relative_strengths (settle_eval_simple.py:99-101).
RELATIVE_STRENGTHS_PARAMETERS == {"total_prod"}

\* The call _compute_relative_strengths(total_prod, dampening=d) of
\* robber_predict.py:178 and init_eval.py:383.  dampening is no parameter of
\* the function, so binding the arguments raises TypeError and the body of the
\* function does not run.
compute_relative_strengths_dampening(total_prod, dampening) ==
    IF "dampening" \in RELATIVE_STRENGTHS_PARAMETERS
    THEN Returned(compute_relative_strengths(total_prod))
    ELSE Raised("TypeError")

\* How many settlements and cities touch the tile.
count_settlements_on_tile(tile_id, nodes) ==
    Cardinality({node_key \in DOMAIN nodes : tile_id \in KeyTiles(node_key)})

\* Steps 1 and 2 of predict_robber: tile_expected of every producing tile,
\* summed by resource.
RECURSIVE SumExpected(_, _, _)
SumExpected(gs, r, tid) ==
    IF tid \notin DOMAIN gs.tiles THEN 0
    ELSE TilePips(gs.tiles, tid, r) * count_settlements_on_tile(tid, gs.nodes)
           + SumExpected(gs, r, tid + 1)

resource_prod(gs) == Table([r \in Resources |-> SumExpected(gs, r, 0)])

\* predict_robber(gs): steps 1 and 2, then the call of step 3, whose TypeError
\* leaves the function; lines 182-228 (steps 4 to 6) are not reached.
predict_robber(gs) ==
    LET Step3(prod) ==
            compute_relative_strengths_dampening(prod, ROBBER_DAMPENING_FACTOR)
    IN Step3(resource_prod(gs))

\* evaluate_init_board(gs): without players the uniform tuple and no
\* PlayerEval; otherwise step 1 calls predict_robber, whose TypeError leaves
\* the function; lines 329-575 are not reached.
evaluate_init_board(gs) ==
    IF Len(gs.players) = 0
    THEN Returned(<< <<ONE \div 4, ONE \div 4, ONE \div 4, ONE \div 4>>, <<>> >>)
    ELSE predict_robber(gs)

\* ------------------------------------------------------------------------
\* State
\* ------------------------------------------------------------------------
VARIABLES
    heap,               \* object reference -> GameState
    next_id,            \* the next free object reference
    gs,                 \* the reference of the GameState passed in
    gs0,                \* the value of that GameState when it was passed in
    data,               \* the snapshot passed to from_json
    x,                  \* simulate_settle's x
    max_window,         \* simulate_settle's max_window
    pc,                 \* where the running call is
    current_placement,  \* simulate_settle's current_placement
    my_options,         \* simulate_settle's my_options
    opt,                \* the index in my_options of the option being simulated
    option,             \* <<settle_spot, road>> of that option
    step,               \* the next value of the loop variable step
    new_cases,          \* new_cases of the last simulated slot, before pruning
    cases,              \* cases
    results,            \* results: a list of <<<<settle, road>>, cases>>
    top_n,              \* rank_all_spots's top_n in the last call
    ret                 \* what the last call of a pure function returned

vars == <<heap, next_id, gs, gs0, data, x, max_window, pc, current_placement,
          my_options, opt, option, step, new_cases, cases, results, top_n, ret>>

\* The references a list of cases holds.
Refs(cs) == {cs[i][1] : i \in DOMAIN cs}

ResultRefs(rs) == UNION {Refs(rs[i][2]) : i \in DOMAIN rs}

\* The heap without the objects nothing refers to any more.
Collect(h, live) == Table([o \in (DOMAIN h) \cap live |-> h[o]])

\* ------------------------------------------------------------------------
\* Starting states of the simulator
\* ------------------------------------------------------------------------
\* A finished draft in snake order: <<node, road, player>> of slot 0 .. 7.
DRAFT ==
    << << <<5, 6, 11>>, <<5, 6>>, 0 >>,
       << <<7, 12, 13>>, <<7, 12>>, 1 >>,
       << <<18, 24, 25>>, <<24, 25>>, 2 >>,
       << <<23, 24, 29>>, <<24, 29>>, 3 >>,
       << <<16, 17, 23>>, <<16, 23>>, 3 >>,
       << <<19, 25, 26>>, <<19, 26>>, 2 >>,
       << <<10, 11, 17>>, <<10, 17>>, 1 >>,
       << <<11, 12, 18>>, <<11, 12>>, 0 >> >>

\* The first k placements of DRAFT as node and edge maps.
DraftOwnedNodes(k) ==
    Table([n \in {DRAFT[i][1] : i \in 1 .. k} |->
        <<DRAFT[CHOOSE i \in 1 .. k : DRAFT[i][1] = n][3], 1>>])

DraftEdges(k) ==
    Table([e \in {DRAFT[i][2] : i \in 1 .. k} |->
        DRAFT[CHOOSE i \in 1 .. k : DRAFT[i][2] = e][3]])

\* A draft position: the first k placements of DRAFT made on board b, the
\* player of slot k to move.
DraftStart(b, k) ==
    [board |-> b, nodes |-> DraftOwnedNodes(k), edges |-> DraftEdges(k),
     p_curr |-> IF k < 8 THEN SETTLE_ORDER[k + 1] ELSE 0]

\* Three node keys that name many tiles each. from_json and simulate_settle
\* take any string as a node key; a key blocks every valid node it shares
\* exactly two tiles with, and these three leave five nodes open: 7_12_13,
\* 16_17_23 and the three neighbours of 16_17_23.
WIDE_KEYS ==
    << <<0, 2, 3, 4, 5, 6, 8, 9, 12, 14, 15, 16, 18, 19, 20, 24, 27, 28, 30, 32,
         33, 34, 35, 36>>,
       <<2, 4, 5, 8, 9, 11, 13, 14, 15, 17, 19, 21, 22, 25, 27, 28, 29, 30, 31,
         32, 33, 34>>,
       <<3, 5, 8, 11, 12, 14, 19, 20, 23, 25, 27, 29, 30>> >>

\* Two node keys that between them share exactly two tiles with every valid
\* node: no node is open.
BLOCKING_KEYS ==
    << <<0, 2, 3, 5, 6, 8, 10, 12, 14, 15, 16, 17, 18, 19, 20, 23, 25, 27, 29,
         30, 32, 33, 35, 36>>,
       <<0, 1, 5, 8, 9, 10, 12, 13, 16, 18, 20, 22, 23, 24, 25, 27, 30, 31, 32,
         34, 36>> >>

\* Starting states: positions of the draft; a position whose settlements
\* 5_6_11 and 5_10_11 are adjacent (from_json does not reject it); a position
\* with cities, no roads and a player to move who is not the slot's player;
\* a position with the three wide keys, where the board runs out of open
\* nodes before the draft ends; a position of the draft with roads on every
\* edge of 10_11_17 and of 11_12_18 and on two edges of 11_17_18 and of 4_5_10;
\* a position with the two blocking keys.
SIM_STARTS ==
    << DraftStart(1, 0), DraftStart(1, 4), DraftStart(1, 6), DraftStart(1, 7), DraftStart(1, 8),
       DraftStart(2, 6),
       [board |-> 1,
        nodes |-> DictSet(DraftOwnedNodes(5), <<5, 10, 11>>, <<1, 1>>),
        edges |-> DictSet(DraftEdges(5), <<5, 10>>, 1),
        p_curr |-> 2],
       [board |-> 1,
        nodes |-> (<<17, 23, 24>> :> <<0, 2>>) @@ (<<12, 13, 19>> :> <<1, 2>>)
                    @@ (<<25, 30, 31>> :> <<2, 1>>) @@ (<<5, 6, 11>> :> <<3, 1>>)
                    @@ (<<29, 30, 34>> :> <<3, 2>>),
        edges |-> <<>>,
        p_curr |-> 0],
       [board |-> 1,
        nodes |-> (WIDE_KEYS[1] :> <<0, 1>>) @@ (WIDE_KEYS[2] :> <<1, 1>>)
                    @@ (WIDE_KEYS[3] :> <<2, 1>>),
        edges |-> <<>>,
        p_curr |-> 3],
       [board |-> 1,
        nodes |-> DraftOwnedNodes(6),
        edges |-> DraftEdges(6) @@ (<<10, 11>> :> 2) @@ (<<10, 17>> :> 2)
                    @@ (<<11, 17>> :> 3) @@ (<<11, 18>> :> 2) @@ (<<11, 12>> :> 2)
                    @@ (<<12, 18>> :> 2) @@ (<<4, 10>> :> 3) @@ (<<5, 10>> :> 3),
        p_curr |-> 1],
       [board |-> 1,
        nodes |-> (BLOCKING_KEYS[1] :> <<0, 1>>) @@ (BLOCKING_KEYS[2] :> <<1, 1>>),
        edges |-> <<>>,
        p_curr |-> 2] >>

SimInit ==
    \E s \in Range(SIM_STARTS), xx \in 1 .. MaxX, w \in 1 .. MaxWindow :
        LET b == BOARDS[s.board]
            g == GameState(b.tiles, b.robber, b.ports,
                           s.nodes, s.edges, s.p_curr, SAMPLE_PLAYERS)
        IN /\ heap = (0 :> g)
           /\ next_id = 1
           /\ gs = 0
           /\ gs0 = g
           /\ data = None
           /\ x = xx
           /\ max_window = w
           /\ pc = "call"
           /\ current_placement = 0
           /\ my_options = <<>>
           /\ opt = 0
           /\ option = <<>>
           /\ step = 0
           /\ new_cases = <<>>
           /\ cases = <<>>
           /\ results = <<>>
           /\ top_n = None
           /\ ret = <<>>

\* ------------------------------------------------------------------------
\* simulate_settle(gs, x, max_window), one action per stretch of its body
\* ------------------------------------------------------------------------
\* Lines 129-141: the position in the draft, the early returns, my_options.
SimStart ==
    /\ pc = "call"
    /\ \E placed \in {Cardinality(DOMAIN heap[gs].nodes)} :
       \E options \in {IF Len(SETTLE_ORDER) - placed <= 0 THEN <<>>
                       ELSE top_settle_spots(heap[gs], x)} :
          /\ current_placement' = placed
          /\ my_options' = options
          /\ opt' = 1
          /\ pc' = IF options = <<>> THEN "done" ELSE "option"
    /\ UNCHANGED <<heap, next_id, gs, gs0, data, x, max_window, option, step,
                   new_cases, cases, results, top_n, ret>>

\* Lines 150-158: the road of the option, the player's own placement with
\* probability 1.0.
SimOption ==
    /\ pc = "option"
    /\ \E settle_spot \in {my_options[opt][1]} :
       \E ranked \in {rank_all_spots(heap[gs], None)} :
       \E road \in {pick_road(heap[gs], settle_spot, ScoreLookup(ranked),
                              Top12Keys(ranked))} :
       \E r \in {apply_placement(heap, next_id, gs, settle_spot, road,
                                 heap[gs].p_curr)} :
          /\ option' = <<settle_spot, road>>
          /\ cases' = << <<r.ref, ONE>> >>
          /\ heap' = Collect(r.heap, {gs, r.ref} \cup ResultRefs(results))
          /\ next_id' = r.next
    /\ new_cases' = <<>>
    /\ step' = 1
    /\ pc' = "slot"
    /\ UNCHANGED <<gs, gs0, data, x, max_window, current_placement, my_options, opt,
                   results, top_n, ret>>

\* Lines 161-189: one pass of the loop over the remaining placements: every
\* case is expanded by the acting player's decisions, then the list is pruned.
\* The states of the previous cases stay in the heap until the next pass.
SimSlot ==
    /\ pc = "slot"
    /\ step < Len(SETTLE_ORDER) - current_placement
    /\ current_placement + step < Len(SETTLE_ORDER)
    /\ \E acting_player \in {SETTLE_ORDER[current_placement + step + 1]} :
       \E r \in {ExpandCases([heap |-> heap, next |-> next_id, new_cases |-> <<>>],
                             cases, 1, acting_player)} :
          /\ new_cases' = r.new_cases
          /\ cases' = prune_and_normalize(r.new_cases, max_window)
          /\ heap' = Collect(r.heap, {gs} \cup Refs(cases) \cup Refs(r.new_cases)
                                        \cup ResultRefs(results))
          /\ next_id' = r.next
    /\ step' = step + 1
    /\ UNCHANGED <<gs, gs0, data, x, max_window, pc, current_placement, my_options,
                   opt, option, results, top_n, ret>>

\* Line 191, and the return after the last option.
SimAppend ==
    /\ pc = "slot"
    /\ ~(step < Len(SETTLE_ORDER) - current_placement
           /\ current_placement + step < Len(SETTLE_ORDER))
    /\ results' = Append(results, <<option, cases>>)
    /\ heap' = Collect(heap, {gs} \cup Refs(cases) \cup Refs(new_cases)
                                \cup ResultRefs(results))
    /\ opt' = opt + 1
    /\ pc' = IF opt + 1 > Len(my_options) THEN "done" ELSE "option"
    /\ UNCHANGED <<next_id, gs, gs0, data, x, max_window, current_placement,
                   my_options, option, step, new_cases, cases, top_n, ret>>

SimNext == SimStart \/ SimOption \/ SimSlot \/ SimAppend

SpecSim == SimInit /\ [][SimNext]_vars

\* ------------------------------------------------------------------------
\* Snapshots passed to from_json
\* ------------------------------------------------------------------------
\* One node of every two adjacent ones: with all of them occupied no valid
\* node is open, and no two of them are adjacent.
FULL_NODES ==
    { <<0, 1, 5>>, <<1, 2, 6>>, <<2, 3, 7>>, <<4, 5, 10>>, <<5, 6, 11>>,
      <<6, 7, 12>>, <<7, 8, 13>>, <<9, 10, 16>>, <<10, 11, 17>>, <<11, 12, 18>>,
      <<12, 13, 19>>, <<13, 14, 20>>, <<15, 16, 22>>, <<16, 17, 23>>,
      <<17, 18, 24>>, <<18, 19, 25>>, <<19, 20, 26>>, <<20, 21, 27>>,
      <<22, 23, 28>>, <<23, 24, 29>>, <<24, 25, 30>>, <<25, 26, 31>>,
      <<26, 27, 32>>, <<28, 29, 33>>, <<29, 30, 34>>, <<30, 31, 35>>,
      <<31, 32, 36>> }

\* Settlements on a set of nodes, dealt to the four players.
SettledOn(nodes) ==
    Table([n \in nodes |-> <<(n[1] + n[2] + n[3]) % 4, 1>>])

Position(nodes, edges, p_curr) ==
    [nodes |-> nodes, edges |-> edges, p_curr |-> p_curr,
     players |-> SAMPLE_PLAYERS]

\* Positions of a snapshot: the empty board; 5_6_11 alone; positions of the
\* draft; a board with no open node, with one and with two; two adjacent
\* settlements; a node key that is no valid node; a settlement of player 9,
\* who is none of the players; the empty board of a snapshot without players.
POSITIONS ==
    { Position(<<>>, <<>>, 0),
      Position(<<5, 6, 11>> :> <<0, 1>>, <<5, 6>> :> 0, 1),
      Position(DraftOwnedNodes(4), DraftEdges(4), 3),
      Position(DraftOwnedNodes(8), DraftEdges(8), 0),
      Position(SettledOn(FULL_NODES), <<>>, 0),
      Position(SettledOn(FULL_NODES \ {<<5, 6, 11>>}), <<>>, 1),
      Position(SettledOn(FULL_NODES \ {<<5, 6, 11>>, <<18, 19, 25>>}), <<>>, 2),
      Position((<<5, 10, 11>> :> <<0, 1>>) @@ (<<5, 6, 11>> :> <<1, 1>>),
               (<<5, 10>> :> 0) @@ (<<6, 11>> :> 1), 2),
      Position((<<0, 1, 2>> :> <<0, 1>>) @@ (<<17, 18, 24>> :> <<1, 2>>),
               <<17, 18>> :> 1, 2),
      Position(<<5, 10, 11>> :> <<9, 1>>, <<>>, 0),
      [Position(<<>>, <<>>, 0) EXCEPT !.players = <<>>] }

\* Tile lists: the sample layout; the sample with port tile 0 retyped (two
\* wood ports, three 3:1); the sample with port tile 2 turned into ocean;
\* the sample with the token -1 on ocean tile 1, which is no port position;
\* no tiles at all.
TILE_LISTS ==
    { SAMPLE_TILES,
      DictSet(SAMPLE_TILES, 0, <<0, -1>>),
      DictSet(SAMPLE_TILES, 2, <<6, 0>>),
      DictSet(SAMPLE_TILES, 1, <<5, -1>>),
      <<>> }

\* Edits of a declared port map: <<node, None>> drops the entry of the node,
\* <<node, Some(t)>> sets it to type t.  The nodes of the edits differ.
PORT_EDITS ==
    { << <<0, 1, 5>>, None >>,
      << <<1, 2, 6>>, Some(5) >>,
      << <<5, 6, 11>>, Some(5) >>,
      << <<7, 8, 13>>, Some(0) >>,
      << <<8, 13, 14>>, Some(0) >> }

\* The most edits made to one declared port map.
MaxEdits == 2

\* The largest top_n passed to rank_all_spots.
MaxTopN == 3

Edited(ports, edits) ==
    Table([n \in ((DOMAIN ports) \cup {e[1] : e \in {e \in edits : e[2] # None}})
                    \ {e[1] : e \in {e \in edits : e[2] = None}} |->
        IF \E e \in edits : e[1] = n
        THEN (CHOOSE e \in edits : e[1] = n)[2][1]
        ELSE ports[n]])

\* The declared port maps: none (to be repaired from the tiles), and the
\* sample's ports after at most MaxEdits edits.
DECLARED_PORTS ==
    {<<>>} \cup {Edited(generate_ports(SAMPLE_TILES), edits) :
                    edits \in {e \in SUBSET PORT_EDITS : Cardinality(e) <= MaxEdits}}

Snapshot(tiles, robber, ports, position) ==
    [tiles |-> tiles, robber |-> robber, ports |-> ports,
     nodes |-> position.nodes, edges |-> position.edges,
     p_curr |-> position.p_curr, players |-> position.players]

\* Every tile list with every declared port map on the empty board, and every
\* position on the boards of the model with the ports declared or left out.
SNAPSHOTS ==
    {Snapshot(tiles, SAMPLE_ROBBER, ports, Position(<<>>, <<>>, 0)) :
        tiles \in TILE_LISTS, ports \in DECLARED_PORTS}
      \cup {Snapshot(BOARDS[b].tiles, BOARDS[b].robber,
                      IF declared THEN BOARDS[b].ports ELSE <<>>, position) :
              b \in DOMAIN BOARDS, declared \in BOOLEAN, position \in POSITIONS}

\* ------------------------------------------------------------------------
\* from_json called on a snapshot, then rank_all_spots, settle_decision,
\* predict_robber or evaluate_init_board called on the state it returns
\* ------------------------------------------------------------------------
ApiInit ==
    /\ data \in SNAPSHOTS
    /\ heap = <<>>
    /\ next_id = 0
    /\ gs = 0
    /\ gs0 = None
    /\ x = 0
    /\ max_window = 0
    /\ pc = "json"
    /\ current_placement = 0
    /\ my_options = <<>>
    /\ opt = 0
    /\ option = <<>>
    /\ step = 0
    /\ new_cases = <<>>
    /\ cases = <<>>
    /\ results = <<>>
    /\ top_n = None
    /\ ret = <<>>

\* gs = GameState.from_json(data): the state, or the ValueError.
FromJson ==
    /\ pc = "json"
    /\ \E r \in {from_json(data)} :
          IF r.ok
          THEN /\ heap' = (next_id :> r.gs[1])
               /\ gs' = next_id
               /\ next_id' = next_id + 1
               /\ gs0' = r.gs[1]
               /\ ret' = <<>>
               /\ pc' = "ready"
          ELSE /\ ret' = r.errors
               /\ pc' = "rejected"
               /\ UNCHANGED <<heap, gs, next_id, gs0>>
    /\ UNCHANGED <<data, x, max_window, current_placement, my_options, opt,
                   option, step, new_cases, cases, results, top_n>>

\* ret = rank_all_spots(gs, top_n), top_n None or a number.
RankAllSpots ==
    /\ pc = "ready"
    /\ \E n \in {None} \cup {Some(k) : k \in 0 .. MaxTopN} :
          /\ top_n' = n
          /\ ret' = rank_all_spots(heap[gs], n)
    /\ pc' = "ranked"
    /\ UNCHANGED <<heap, next_id, gs, gs0, data, x, max_window,
                   current_placement, my_options, opt, option, step, new_cases,
                   cases, results>>

\* ret = settle_decision(gs).
SettleDecision ==
    /\ pc = "ready"
    /\ ret' = settle_decision(heap[gs])
    /\ pc' = "decided"
    /\ UNCHANGED <<heap, next_id, gs, gs0, data, x, max_window,
                   current_placement, my_options, opt, option, step, new_cases,
                   cases, results, top_n>>

\* ret = predict_robber(gs).
PredictRobber ==
    /\ pc = "ready"
    /\ ret' = predict_robber(heap[gs])
    /\ pc' = "robber"
    /\ UNCHANGED <<heap, next_id, gs, gs0, data, x, max_window,
                   current_placement, my_options, opt, option, step, new_cases,
                   cases, results, top_n>>

\* ret = evaluate_init_board(gs).
EvaluateInitBoard ==
    /\ pc = "ready"
    /\ ret' = evaluate_init_board(heap[gs])
    /\ pc' = "evaluated"
    /\ UNCHANGED <<heap, next_id, gs, gs0, data, x, max_window,
                   current_placement, my_options, opt, option, step, new_cases,
                   cases, results, top_n>>

ApiNext ==
    FromJson \/ RankAllSpots \/ SettleDecision \/ PredictRobber
      \/ EvaluateInitBoard

SpecApi == ApiInit /\ [][ApiNext]_vars

\* ------------------------------------------------------------------------
\* Properties of simulate_settle
\* ------------------------------------------------------------------------
\* The sum of the probabilities of a list of cases.
SumProb(cs) == SumSeq(List([i \in DOMAIN cs |-> cs[i][2]]))

\* "Sums to 1": within 1e-6 of 1.0.
SumsToOne(cs) == SumProb(cs) >= ONE - TOL /\ SumProb(cs) <= ONE + TOL

\* Two occupied nodes never share exactly two of their three tiles.
DistanceRule(nodes) ==
    \A a \in DOMAIN nodes, b \in DOMAIN nodes :
        Cardinality(KeyTiles(a) \cap KeyTiles(b)) # 2

\* The states of the branches the call holds: the current cases, the cases of
\* the last slot before pruning, and the cases of the finished options.
BranchRefs == Refs(cases) \cup Refs(new_cases) \cup ResultRefs(results)

\* C1: for every option, the probabilities of the branches sum to 1 after
\* every simulated slot, before pruning (new_cases) and after it (cases),
\* and in every entry of the result.
C1_BranchProbabilitiesSumToOne ==
    /\ cases # <<>> => SumsToOne(cases)
    /\ new_cases # <<>> => SumsToOne(new_cases)
    /\ \A i \in DOMAIN results : SumsToOne(results[i][2])

\* A slot whose expansion was pruned, the kept probabilities rescaled.
C1_PrunedAndRescaled ==
    /\ pc = "slot"
    /\ Len(new_cases) > max_window
    /\ Len(cases) = max_window
    /\ \E i \in DOMAIN cases : \A j \in DOMAIN new_cases :
           new_cases[j][1] = cases[i][1] => cases[i][2] > new_cases[j][2]

\* C2: the list of branches of an option never holds more than max_window
\* branches, after each simulated slot and in the result.
C2_AtMostMaxWindowBranches ==
    /\ Len(cases) <= max_window
    /\ \A i \in DOMAIN results : Len(results[i][2]) <= max_window

\* A returned result one of whose options had more than max_window branches
\* before the last pruning and holds exactly max_window.
C2_ResultAtTheWindow ==
    /\ pc = "done"
    /\ max_window >= 2
    /\ Len(new_cases) > max_window
    /\ \E i \in DOMAIN results : Len(results[i][2]) = max_window

\* C3: if the occupied nodes of the starting state are valid nodes that keep
\* the distance rule, then in every branch state every occupied node is a
\* valid node, the nodes occupied at the start are still held as they were
\* and every placement took a new node, and the distance rule holds.
C3_BranchesKeepTheDistanceRule ==
    (DOMAIN gs0.nodes \subseteq VALID_NODES /\ DistanceRule(gs0.nodes))
      => /\ \A o \in BranchRefs :
              /\ DOMAIN heap[o].nodes \subseteq VALID_NODES
              /\ DistanceRule(heap[o].nodes)
              /\ \A n \in DOMAIN gs0.nodes : heap[o].nodes[n] = gs0.nodes[n]
         /\ pc = "slot" =>
              \A o \in Refs(cases) :
                  Cardinality(DOMAIN heap[o].nodes) = current_placement + step

\* A returned result from a start that keeps the rule, with a branch three
\* placements deep.
C3_DeepBranchFromValidStart ==
    /\ pc = "done"
    /\ DOMAIN gs0.nodes \subseteq VALID_NODES
    /\ DistanceRule(gs0.nodes)
    /\ gs0.nodes # <<>>
    /\ \E o \in ResultRefs(results) :
           Cardinality(DOMAIN heap[o].nodes) >= Cardinality(DOMAIN gs0.nodes) + 3

\* The branches of the call are pairwise separate objects, none of them the
\* input state.
SeparateBranches ==
    /\ gs \notin BranchRefs
    /\ \A i, j \in DOMAIN cases : i # j => cases[i][1] # cases[j][1]
    /\ \A a, b \in DOMAIN results :
           \A i \in DOMAIN results[a][2], j \in DOMAIN results[b][2] :
               (a # b \/ i # j) => results[a][2][i][1] # results[b][2][j][1]

\* A step leaves every object that existed before it as it was.
FrameStep == \A o \in (DOMAIN heap) \cap (DOMAIN heap') : heap'[o] = heap[o]

\* C4: the input state is never written (its node map, edge map and active
\* player stay what they were at the call), the branches are separate
\* objects, and a step of the simulation writes only into the copies it has
\* just made: every state that existed before the step, a parent or a sibling
\* of the new branches, is unchanged by it.
C4_WritesOnlyIntoFreshCopies ==
    /\ [](heap[gs] = gs0 /\ SeparateBranches)
    /\ [][FrameStep]_vars

\* A returned result with two options, one of them holding two branches.
C4_ResultWithSiblings ==
    /\ pc = "done"
    /\ Len(results) >= 2
    /\ \E i \in DOMAIN results : Len(results[i][2]) >= 2
    /\ heap[gs] = gs0

\* A pass of the loop over the remaining placements.
SlotPass == pc = "slot" /\ step' = step + 1

\* What settle_decision returns for the branch state o with player to move.
DecisionsFor(o, player) == settle_decision([heap[o] EXCEPT !.p_curr = player])

\* The pass keeps case i in the list cs: the same object, unchanged, with the
\* same probability.
KeptIn(cs, i) ==
    /\ \E j \in DOMAIN cs : cs[j] = cases[i]
    /\ heap'[cases[i][1]] = heap[cases[i][1]]

\* The pass holds, for every decision of case i, a new state with the
\* decision's settlement and road placed and the product of the probabilities.
ExpandedBy(i, decisions, player) ==
    \A d \in DOMAIN decisions :
        \E j \in DOMAIN new_cases' :
            /\ new_cases'[j][1] \notin DOMAIN heap
            /\ new_cases'[j][2] = FMul(cases[i][2], decisions[d][2])
            /\ heap'[new_cases'[j][1]].nodes =
                 DictSet(heap[cases[i][1]].nodes, decisions[d][1][1], <<player, 1>>)
            /\ heap'[new_cases'[j][1]].edges =
                 DictSet(heap[cases[i][1]].edges, decisions[d][1][2], player)

\* C20: in a pass of the loop, a branch for which settle_decision returns no
\* option is appended to the pass's new list as it is, the same state with
\* the same probability, and survives into the live list when the pass does
\* not prune; every other branch of the pass is expanded by its decisions;
\* the call ends with one result entry per option.
C20_BranchWithoutDecisionsCarriedIntoNewCases ==
    /\ [][SlotPass =>
            \A player \in {SETTLE_ORDER[current_placement + step + 1]} :
            \A i \in DOMAIN cases :
            \A decisions \in {DecisionsFor(cases[i][1], player)} :
                IF decisions = <<>>
                THEN /\ KeptIn(new_cases', i)
                     /\ Len(new_cases') <= max_window => KeptIn(cases', i)
                ELSE ExpandedBy(i, decisions, player)]_vars
    /\ [](pc = "done" /\ current_placement < Len(SETTLE_ORDER)
            => Len(results) = Len(my_options))

\* C20 as stated: a branch for which settle_decision returns no option stays
\* in the live list, cases, with the same state and the same probability.
C20_BranchWithoutDecisionsStaysLive ==
    [][SlotPass =>
          \A player \in {SETTLE_ORDER[current_placement + step + 1]} :
          \A i \in DOMAIN cases :
              DecisionsFor(cases[i][1], player) = <<>> => KeptIn(cases', i)]_vars

\* A returned result with an option one of whose branches was carried through
\* the last two passes while a sibling was expanded in both.
C20_ResultHoldsACarriedBranch ==
    /\ pc = "done"
    /\ \E r \in DOMAIN results :
       \E i, j \in DOMAIN results[r][2] :
           /\ Cardinality(DOMAIN heap[results[r][2][i][1]].nodes)
                 = Cardinality(DOMAIN gs0.nodes) + 2
           /\ Cardinality(DOMAIN heap[results[r][2][j][1]].nodes)
                 = Cardinality(DOMAIN gs0.nodes) + 4

\* The number of nodes player p holds.
OwnedBy(nodes, p) == Cardinality({n \in DOMAIN nodes : nodes[n][1] = p})

\* The number of the first m slots of the snake order that are player p's.
SlotsOf(m, p) == Cardinality({j \in 1 .. m : <<0, 1, 2, 3, 3, 2, 1, 0>>[j] = p})

\* The starting state is a draft in progress: k < 8 occupied valid nodes, held
\* as the first k slots of the snake order give them, the player of slot k to
\* move.
DraftInProgress ==
    /\ Cardinality(DOMAIN gs0.nodes) < 8
    /\ DOMAIN gs0.nodes \subseteq VALID_NODES
    /\ \A p \in 0 .. 3 : OwnedBy(gs0.nodes, p) = SlotsOf(Cardinality(DOMAIN gs0.nodes), p)
    /\ gs0.p_curr = <<0, 1, 2, 3, 3, 2, 1, 0>>[Cardinality(DOMAIN gs0.nodes) + 1]

\* C21: from a draft in progress with k occupied nodes, the branches hold
\* after each simulated slot the placements of the slots so far, each slot's
\* settlement held by the slot's player in the snake order 0,1,2,3,3,2,1,0;
\* every branch of the result has exactly 8 occupied
\* nodes, 2 for each of the 4 players.
C21_SlotsFollowTheSnakeOrder ==
    DraftInProgress
      => /\ pc = "slot" =>
              \A o \in Refs(cases) :
                  /\ Cardinality(DOMAIN heap[o].nodes) = current_placement + step
                  /\ \A p \in 0 .. 3 :
                         OwnedBy(heap[o].nodes, p) = SlotsOf(current_placement + step, p)
         /\ \A o \in ResultRefs(results) :
                /\ Cardinality(DOMAIN heap[o].nodes) = 8
                /\ \A p \in 0 .. 3 : OwnedBy(heap[o].nodes, p) = 2

\* A returned result from a draft in progress with four placements to make,
\* one of its options holding several branches.
C21_ResultOfAHalfwayDraft ==
    /\ pc = "done"
    /\ DraftInProgress
    /\ Cardinality(DOMAIN gs0.nodes) = 4
    /\ \E i \in DOMAIN results : Len(results[i][2]) >= 2

\* The three edges of a node: the pairs of its tiles.
EdgesOf(n) == {<<a, b>> : a, b \in KeyTiles(n)} \cap {e \in Tiles \X Tiles : e[1] < e[2]}

\* A tile that is neither ocean nor a port.
LandTile(tiles, t) == tiles[t][1] # 6 /\ tiles[t][2] # -1

\* The edges of node n on which a road can be placed in state g: unoccupied,
\* with a land tile on one side.
FreeEdges(g, n) ==
    {e \in EdgesOf(n) :
        /\ e \notin DOMAIN g.edges
        /\ LandTile(g.tiles, e[1]) \/ LandTile(g.tiles, e[2])}

\* The road of an option is an edge of its node, a free one if there is one.
RoadFits(g, o) ==
    /\ o[2] \in EdgesOf(o[1])
    /\ FreeEdges(g, o[1]) # {} => o[2] \in FreeEdges(g, o[1])

\* C23: the road of the evaluating player's own option and the road of every
\* option settle_decision returns for a branch is an edge of the option's
\* node, and a free edge of it (unoccupied, a land tile on one side) whenever
\* the node has one.
C23_RoadIsAFreeEdgeOfTheNode ==
    /\ [](option # <<>> => RoadFits(gs0, option))
    /\ [][SlotPass =>
            \A player \in {SETTLE_ORDER[current_placement + step + 1]} :
            \A i \in DOMAIN cases :
            \A decisions \in {DecisionsFor(cases[i][1], player)} :
            \A d \in DOMAIN decisions :
                RoadFits(heap[cases[i][1]], decisions[d][1])]_vars

\* A returned result with an option whose node had no free edge, its road an
\* occupied edge of the node, and an option whose road is the only free edge
\* of its node, with a branch placed on a node with a single free edge.
C23_ResultWithRoadsOnCrowdedNodes ==
    /\ pc = "done"
    /\ \E i, j \in DOMAIN results :
          /\ FreeEdges(gs0, results[i][1][1]) = {}
          /\ results[i][1][2] \in DOMAIN gs0.edges
          /\ FreeEdges(gs0, results[j][1][1]) = {results[j][1][2]}
          /\ \E c \in DOMAIN results[i][2] :
                 \E n \in DOMAIN heap[results[i][2][c][1]].nodes :
                     /\ n \notin DOMAIN gs0.nodes
                     /\ n # results[i][1][1]
                     /\ Cardinality(FreeEdges(gs0, n)) = 1

\* Every occupied edge of the starting state is one of the three edges of an
\* occupied node.
RoadsAtNodes ==
    \A e \in DOMAIN gs0.edges :
        \E n \in DOMAIN gs0.nodes : e \in Range(get_node_edges(n))

\* The state of object o holds every road of the starting state under its
\* owner, and as many roads more than the starting state as nodes more.
GrownInStep(o) ==
    /\ \A e \in DOMAIN gs0.edges :
           e \in DOMAIN heap[o].edges /\ heap[o].edges[e] = gs0.edges[e]
    /\ Cardinality(DOMAIN heap[o].edges) - Cardinality(DOMAIN gs0.edges)
          = Cardinality(DOMAIN heap[o].nodes) - Cardinality(DOMAIN gs0.nodes)

\* C29: when every occupied edge of the starting state is an edge of an
\* occupied node, the road of the player's own option and the road of every
\* option a branch is expanded by is an edge unoccupied in the state it is
\* placed in; every branch keeps the starting state's roads under their
\* owners and holds one road more for each node more.
C29_RoadsGoOnUnoccupiedEdges ==
    /\ [](RoadsAtNodes =>
            /\ option # <<>> => option[2] \notin DOMAIN gs0.edges
            /\ pc = "slot" => \A o \in Refs(cases) : GrownInStep(o)
            /\ \A o \in ResultRefs(results) : GrownInStep(o))
    /\ [][RoadsAtNodes /\ SlotPass =>
            \A player \in {SETTLE_ORDER[current_placement + step + 1]} :
            \A i \in DOMAIN cases :
            \A decisions \in {DecisionsFor(cases[i][1], player)} :
            \A d \in DOMAIN decisions :
                decisions[d][1][2] \notin DOMAIN heap[cases[i][1]].edges]_vars

\* A returned result from a starting state with four roads, each at its
\* owner's node, with a branch that holds four roads more.
C29_ResultWithFourRoadsMore ==
    /\ pc = "done"
    /\ RoadsAtNodes
    /\ Cardinality(DOMAIN gs0.edges) = 4
    /\ \E o \in ResultRefs(results) : Cardinality(DOMAIN heap[o].edges) = 8

\* The valid nodes that are neither occupied nor share exactly two tiles with
\* an occupied node.
OpenNodes(g) ==
    {n \in VALID_NODES :
        /\ n \notin DOMAIN g.nodes
        /\ \A o \in DOMAIN g.nodes : Cardinality(KeyTiles(o) \cap KeyTiles(n)) # 2}

\* C28: the result of simulate_settle(gs, x) holds one entry for each of the
\* x highest-scoring open nodes of the input state, or for every open node
\* when there are fewer, in non-increasing order of score, no node twice; it
\* is empty when the input has 8 or more occupied nodes or no open node.
C28_OptionsAreTheTopOpenNodes ==
    pc = "done" =>
        \A ranked \in {rank_all_spots(gs0, None)} :
            /\ Len(results) <= x
            /\ \A i \in DOMAIN results :
                   /\ results[i][1][1] \in OpenNodes(gs0)
                   /\ results[i][1][1] = ranked[i][1]
                   /\ \A j \in DOMAIN results : j # i => results[j][1][1] # results[i][1][1]
                   /\ \A j \in DOMAIN ranked : j > i => ranked[j][2] <= ranked[i][2]
            /\ Len(results) = IF Cardinality(DOMAIN gs0.nodes) >= 8 THEN 0
                              ELSE Min2(x, Cardinality(OpenNodes(gs0)))

\* A returned result of x options, x at least 2, from a state with more open
\* nodes than that, and so with open nodes left out.
C28_ResultOfXOptions ==
    /\ pc = "done"
    /\ x >= 2
    /\ Len(results) = x
    /\ Cardinality(OpenNodes(gs0)) > x
    /\ Cardinality(DOMAIN gs0.nodes) > 0

\* ------------------------------------------------------------------------
\* Properties of from_json, rank_all_spots and settle_decision
\* ------------------------------------------------------------------------
\* The nodes of a returned ranking, or the settlement nodes of a decision.
RankedNodes == {ret[i][1] : i \in DOMAIN ret}

DecidedNodes == {ret[i][1][1] : i \in DOMAIN ret}

\* C5, as it holds: settle_decision returns at most 3 options, on open nodes
\* only; it returns none exactly when the state has no open node, and the
\* probabilities of the options it does return sum to 1.
C5_DecisionIsADistributionUnlessEmpty ==
    pc = "decided" =>
        /\ Len(ret) <= 3
        /\ ret = <<>> <=> OpenNodes(heap[gs]) = {}
        /\ ret # <<>> => SumsToOne(ret)
        /\ DecidedNodes \subseteq OpenNodes(heap[gs])

\* C5 as stated: for every game state settle_decision returns at most 3
\* options whose probabilities sum to 1, on open nodes only.
C5_DecisionAlwaysSumsToOne ==
    pc = "decided" =>
        /\ Len(ret) <= 3
        /\ SumsToOne(ret)
        /\ DecidedNodes \subseteq OpenNodes(heap[gs])

\* A decision of three options on a board with settlements.
C5_ThreeOptionsOnSettledBoard ==
    /\ pc = "decided"
    /\ Len(ret) = 3
    /\ DOMAIN heap[gs].nodes # {}
    /\ SumsToOne(ret)

\* The snapshot has no occupied node and no occupied edge.
EmptyBoard == DOMAIN data.nodes = {} /\ DOMAIN data.edges = {}

\* The snapshot's layout: 37 tiles whose nine port positions hold four 3:1
\* ports and one 2:1 port of each resource, the declared ports left out or
\* the ones of the tiles.
ValidLayout ==
    /\ DOMAIN data.tiles = Tiles
    /\ \A t \in PORT_TILES : data.tiles[t][2] = -1
    /\ Cardinality({t \in PORT_TILES : data.tiles[t][1] = 5}) = 4
    /\ \A r \in Resources : Cardinality({t \in PORT_TILES : data.tiles[t][1] = r}) = 1
    /\ (DOMAIN data.ports = {} \/ data.ports = generate_ports(data.tiles))

\* C6: on an empty board with a valid 37-tile layout from_json returns a
\* state, rank_all_spots returns all 54 valid nodes and settle_decision
\* returns exactly 3 options.
C6_EmptyBoardScenario ==
    (pc # "json" /\ EmptyBoard /\ ValidLayout) =>
        /\ pc # "rejected"
        /\ (pc = "ranked" /\ top_n = None) =>
               Len(ret) = 54 /\ RankedNodes = VALID_NODES
        /\ pc = "decided" => Len(ret) = 3

\* The decision taken on the empty sample board built from a snapshot that
\* leaves the ports out.
C6_DecidedOnEmptyBoard ==
    /\ pc = "decided"
    /\ EmptyBoard
    /\ ValidLayout
    /\ DOMAIN data.ports = {}
    /\ Len(ret) = 3

\* The only occupied node of the state is 5_6_11.
OnlySettled5_6_11 == DOMAIN heap[gs].nodes = {<<5, 6, 11>>}

\* C7, as it holds: with 5_6_11 the only occupied node, rank_all_spots leaves
\* out 5_6_11 and its three neighbours 1_5_6, 5_10_11 and 6_11_12, which share
\* two tiles with it; 6_7_12 shares tile 6 alone and is ranked.
C7_NeighboursOf5_6_11Blocked ==
    (pc = "ranked" /\ top_n = None /\ OnlySettled5_6_11) =>
        /\ RankedNodes = VALID_NODES \ {<<5, 6, 11>>, <<1, 5, 6>>, <<5, 10, 11>>,
                                        <<6, 11, 12>>}
        /\ <<6, 7, 12>> \in RankedNodes

\* C7 as stated: with 5_6_11 the only occupied node, 6_7_12 is not among the
\* ranked open nodes.
C7_Node6_7_12Blocked ==
    (pc = "ranked" /\ top_n = None /\ OnlySettled5_6_11) =>
        <<6, 7, 12>> \notin RankedNodes

\* The full ranking of the board with 5_6_11 alone.
C7_RankedWith5_6_11 ==
    /\ pc = "ranked"
    /\ top_n = None
    /\ OnlySettled5_6_11
    /\ Len(ret) = 50

\* C8: rank_all_spots returns open nodes only, each once, with its score, in
\* non-increasing order of score; without top_n all of them, with top_n the
\* first top_n of the full list: no open node left out scores more than a
\* returned one.
C8_RankingIsTheSortedOpenNodes ==
    pc = "ranked" =>
        /\ Len(ret) = IF top_n = None THEN Cardinality(OpenNodes(heap[gs]))
                      ELSE Min2(top_n[1], Cardinality(OpenNodes(heap[gs])))
        /\ RankedNodes \subseteq OpenNodes(heap[gs])
        /\ \A i \in DOMAIN ret : ret[i][2] = score_settlement(heap[gs], ret[i][1])
        /\ \A i, j \in DOMAIN ret :
               i < j => ret[i][1] # ret[j][1] /\ ret[i][2] >= ret[j][2]
        /\ \A n \in OpenNodes(heap[gs]) \ RankedNodes :
               \A i \in DOMAIN ret : ret[i][2] >= score_settlement(heap[gs], n)

\* A ranking cut by top_n on a board with settlements, its scores not all
\* the same.
C8_CutRanking ==
    /\ pc = "ranked"
    /\ top_n # None
    /\ Len(ret) = top_n[1]
    /\ Len(ret) >= 2
    /\ ret[1][2] > ret[Len(ret)][2]
    /\ DOMAIN heap[gs].nodes # {}

\* A port map of 18 entries that gives the two access nodes of each of the
\* nine port tiles the same type: four ports of type 5, one of each type 0-4.
StandardPorts(ports) ==
    /\ Cardinality(DOMAIN ports) = 18
    /\ \A t \in PORT_TILES :
           /\ PORT_TILE_TO_NODES[t][1] \in DOMAIN ports
           /\ PORT_TILE_TO_NODES[t][2] \in DOMAIN ports
           /\ ports[PORT_TILE_TO_NODES[t][1]] = ports[PORT_TILE_TO_NODES[t][2]]
    /\ Cardinality({t \in PORT_TILES : ports[PORT_TILE_TO_NODES[t][1]] = 5}) = 4
    /\ \A r \in Resources :
           Cardinality({t \in PORT_TILES : ports[PORT_TILE_TO_NODES[t][1]] = r}) = 1

\* The port map from_json validates: the declared one, or the one of the
\* tiles where the snapshot declares none.
PortsOf(d) ==
    IF DOMAIN d.ports = {} /\ DOMAIN d.tiles # {}
    THEN generate_ports(d.tiles) ELSE d.ports

\* from_json has returned a state.
Accepted == pc \notin {"json", "rejected"}

\* C9: the port map of every state from_json returns is standard and is the
\* map derived from the tiles; a snapshot whose port map is not is rejected.
C9_ReturnedPortsAreStandard ==
    /\ Accepted =>
           /\ StandardPorts(heap[gs].ports)
           /\ heap[gs].ports = generate_ports(heap[gs].tiles)
    /\ (pc # "json" /\ ~(/\ StandardPorts(PortsOf(data))
                         /\ PortsOf(data) = generate_ports(data.tiles)))
           => pc = "rejected"

\* A state returned for a snapshot that declares its ports.
C9_AcceptedDeclaredPorts ==
    /\ pc = "ready"
    /\ DOMAIN data.ports # {}
    /\ Cardinality(DOMAIN heap[gs].ports) = 18

\* The error lists the item <<kind, key>>.
Listed(kind, key) ==
    \E i \in DOMAIN ret : ret[i][1] = kind /\ ret[i][2] = key

ListedKind(kind) == \E i \in DOMAIN ret : ret[i][1] = kind

\* C10: a rejected snapshot yields no state and one error, whose items name
\* every violated check: every port pair with differing types, every pair
\* with one access node missing, an entry count other than 18, every port
\* type with a wrong count, and every node on which tiles and declared ports
\* disagree.
C10_ErrorListsEveryViolation ==
    pc = "rejected" =>
        /\ DOMAIN heap = {}
        /\ ret # <<>>
        /\ \A t \in PORT_TILES :
               /\ (/\ PORT_TILE_TO_NODES[t][1] \in DOMAIN PortsOf(data)
                   /\ PORT_TILE_TO_NODES[t][2] \in DOMAIN PortsOf(data)
                   /\ PortsOf(data)[PORT_TILE_TO_NODES[t][1]]
                        # PortsOf(data)[PORT_TILE_TO_NODES[t][2]])
                    => Listed("pair_mismatch", t)
               /\ ((PORT_TILE_TO_NODES[t][1] \in DOMAIN PortsOf(data))
                     # (PORT_TILE_TO_NODES[t][2] \in DOMAIN PortsOf(data)))
                    => Listed("incomplete_pair", t)
        /\ Cardinality(DOMAIN PortsOf(data)) # 18 => ListedKind("entry_count")
        /\ \A ty \in 0 .. 5 :
               TypeCount(PortsOf(data), ty) # (IF ty = 5 THEN 4 ELSE 1)
                    => Listed("distribution", ty)
        /\ \A n \in DOMAIN generate_ports(data.tiles) :
               IF n \in DOMAIN PortsOf(data)
               THEN PortsOf(data)[n] # generate_ports(data.tiles)[n]
                        => Listed("conflict", n)
               ELSE Listed("missing_port_node", n)
        /\ \A n \in (DOMAIN PortsOf(data)) \ DOMAIN generate_ports(data.tiles) :
               Listed("unknown_port_node", n)

\* A rejection whose error lists items of four kinds or more.
C10_SeveralViolations ==
    /\ pc = "rejected"
    /\ Cardinality({ret[i][1] : i \in DOMAIN ret}) >= 4

\* ------------------------------------------------------------------------
\* Properties of the port repair and of node validation in from_json
\* ------------------------------------------------------------------------
\* The port tiles a tile list marks: the 9 port positions with token -1.
MarkedPortTiles(tiles) ==
    {t \in PORT_TILES \cap DOMAIN tiles : tiles[t][2] = -1}

\* The port map of a tile list: the two access nodes of every marked port
\* tile carry the tile's resource id.
DerivedPorts(tiles) ==
    [n \in {PORT_TILE_TO_NODES[t][i] : t \in MarkedPortTiles(tiles), i \in 1 .. 2} |->
        tiles[CHOOSE t \in MarkedPortTiles(tiles) :
                  n \in {PORT_TILE_TO_NODES[t][1], PORT_TILE_TO_NODES[t][2]}][1]]

\* The snapshot declares no port and has tiles.
PortsLeftOut == DOMAIN data.ports = {} /\ DOMAIN data.tiles # {}

\* C11: when the snapshot declares no port and has tiles, from_json validates
\* and keeps the port map derived from the tiles: the two access nodes of
\* every port position with token -1 carry the tile's resource id and no
\* other node has an entry, so the error of a rejection names no disagreement
\* between tiles and ports; a declared port map is kept as it is.
C11_MissingPortsDerivedFromTiles ==
    pc # "json" =>
        /\ (PortsLeftOut /\ Accepted) => heap[gs].ports = DerivedPorts(data.tiles)
        /\ (PortsLeftOut /\ pc = "rejected") =>
               /\ ~ListedKind("conflict")
               /\ ~ListedKind("unknown_port_node")
               /\ ~ListedKind("missing_port_node")
        /\ (DOMAIN data.ports # {} /\ Accepted) => heap[gs].ports = data.ports

\* A state built from a snapshot without ports whose tiles carry the token -1
\* on a tile that is no port position.
C11_RepairedIgnoringOceanToken ==
    /\ pc = "ready"
    /\ PortsLeftOut
    /\ data.tiles[1] = <<5, -1>>
    /\ Cardinality(DOMAIN heap[gs].ports) = 18
    /\ <<0, 1, 5>> \in DOMAIN heap[gs].ports

\* Two occupied nodes of the snapshot share exactly two tile ids.
AdjacentNodesDeclared ==
    \E a, b \in DOMAIN data.nodes :
        a # b /\ Cardinality(KeyTiles(a) \cap KeyTiles(b)) = 2

\* C12: from_json rejects every snapshot in which two occupied nodes share
\* exactly two tile ids, so no state that breaks the distance rule is built.
C12_AdjacentNodesRejected ==
    (pc # "json" /\ AdjacentNodesDeclared) => pc = "rejected"

\* An occupied node of the snapshot names a player who is none of the players.
UnknownPlayerDeclared ==
    \E n \in DOMAIN data.nodes : data.nodes[n][1] \notin Range(data.players)

\* C13: from_json rejects every snapshot in which an occupied node names a
\* player id that is the id of none of the players.
C13_UnknownPlayerRejected ==
    (pc # "json" /\ UnknownPlayerDeclared) => pc = "rejected"

\* ------------------------------------------------------------------------
\* The topology functions called on their own (game_state.py)
\* ------------------------------------------------------------------------
\* sorted(tile_triple), the ids not necessarily different.
Sorted3(t) ==
    LET lo == Min2(t[1], Min2(t[2], t[3]))
        hi == -Min2(-t[1], Min2(-t[2], -t[3]))
    IN <<lo, t[1] + t[2] + t[3] - lo - hi, hi>>

\* A membership test on the triple as it was passed.
is_valid_node_unsorted(tile_triple) == tile_triple \in VALID_NODES

\* is_valid_node(tile_triple): the key of the sorted ids is in VALID_NODES.
is_valid_node(tile_triple) == Sorted3(tile_triple) \in VALID_NODES

\* How far outside 0 .. 36 the tile ids passed to get_adjacent_tiles go.
MaxOutside == 3

\* The arguments: every triple of tile ids, and tile ids in and around 0 .. 36.
TOPO_INPUTS ==
    {[fn |-> "is_valid_node", arg |-> <<a, b, c>>] : a, b, c \in Tiles}
      \cup {[fn |-> "get_adjacent_tiles", arg |-> <<t>>] :
              t \in (0 - MaxOutside) .. (NUM_TILES - 1 + MaxOutside)}

TopoInit ==
    /\ data \in TOPO_INPUTS
    /\ heap = <<>>
    /\ next_id = 0
    /\ gs = 0
    /\ gs0 = None
    /\ x = 0
    /\ max_window = 0
    /\ pc = "input"
    /\ current_placement = 0
    /\ my_options = <<>>
    /\ opt = 0
    /\ option = <<>>
    /\ step = 0
    /\ new_cases = <<>>
    /\ cases = <<>>
    /\ results = <<>>
    /\ top_n = None
    /\ ret = <<>>

\* ret = is_valid_node(tile_triple)
IsValidNode ==
    /\ pc = "input"
    /\ data.fn = "is_valid_node"
    /\ ret' = Returned(is_valid_node(data.arg))
    /\ pc' = "node"
    /\ UNCHANGED <<heap, next_id, gs, gs0, data, x, max_window,
                   current_placement, my_options, opt, option, step, new_cases,
                   cases, results, top_n>>

\* ret = get_adjacent_tiles(tile_id); _tile_to_rowcol raises ValueError when
\* no row holds the id.
GetAdjacentTiles ==
    /\ pc = "input"
    /\ data.fn = "get_adjacent_tiles"
    /\ ret' = IF tile_to_rowcol(data.arg[1]) = <<-1, -1>>
              THEN Raised("ValueError")
              ELSE Returned(get_adjacent_tiles(data.arg[1]))
    /\ pc' = "adjacent"
    /\ UNCHANGED <<heap, next_id, gs, gs0, data, x, max_window,
                   current_placement, my_options, opt, option, step, new_cases,
                   cases, results, top_n>>

TopoNext == IsValidNode \/ GetAdjacentTiles

SpecTopo == TopoInit /\ [][TopoNext]_vars

\* ------------------------------------------------------------------------
\* Properties of the topology functions and of the port-access table
\* ------------------------------------------------------------------------
\* The ids are three different tiles, each a neighbour of the other two.
MutuallyAdjacent(t) ==
    /\ t[1] # t[2] /\ t[1] # t[3] /\ t[2] # t[3]
    /\ t[2] \in get_adjacent_tiles(t[1]) /\ t[3] \in get_adjacent_tiles(t[1])
    /\ t[3] \in get_adjacent_tiles(t[2])

\* The six orders of a triple.
Orders(t) ==
    {<<t[p[1]], t[p[2]], t[p[3]]>> :
        p \in {q \in [1 .. 3 -> 1 .. 3] : {q[1], q[2], q[3]} = 1 .. 3}}

\* The sorted triples of tile ids that is_valid_node accepts.
AcceptedSortedTriples ==
    {t \in {<<a, b, c>> : a, b, c \in Tiles} :
        t[1] <= t[2] /\ t[2] <= t[3] /\ is_valid_node(t)}

\* C14: is_valid_node accepts a triple of tile ids of 0 .. 36 exactly when
\* the ids are different and pairwise adjacent under get_adjacent_tiles; the
\* answer is the same for every order of the three ids; triples with a
\* repeated id and triples of one row are refused; 54 sorted triples are
\* accepted.
C14_ValidNodesAreTheMutuallyAdjacentTriples ==
    pc = "node" =>
        /\ ret.value = MutuallyAdjacent(data.arg)
        /\ \A t \in Orders(data.arg) : is_valid_node(t) = ret.value
        /\ Cardinality(Range(data.arg)) < 3 => ~ret.value
        /\ Cardinality({tile_to_rowcol(data.arg[i])[1] : i \in 1 .. 3}) = 1
               => ~ret.value
        /\ Cardinality(AcceptedSortedTriples) = 54

\* A triple accepted though its ids were passed out of order.
C14_UnsortedTripleAccepted ==
    /\ pc = "node"
    /\ data.arg = <<19, 12, 18>>
    /\ ret.value

\* C16: get_adjacent_tiles raises an error for every tile id outside 0 .. 36,
\* negative or too large, and returns tile ids of 0 .. 36 only for every id
\* of 0 .. 36.
C16_OutOfRangeTileFails ==
    pc = "adjacent" =>
        IF data.arg[1] \in Tiles
        THEN ret.error = "" /\ ret.value \subseteq Tiles
        ELSE ret.error # ""

\* The node keys of the port-access table.
PortTableKeys ==
    {PORT_TILE_TO_NODES[t][i] : t \in DOMAIN PORT_TILE_TO_NODES, i \in 1 .. 2}

\* C15: the port-access table has 9 port tiles, each with two different node
\* keys that are valid nodes and contain the id of the port tile; its 18 keys
\* differ, so the port map derived from a board that marks all 9 port tiles
\* has exactly 18 entries.
C15_PortTableHasEighteenValidNodes ==
    /\ Cardinality(DOMAIN PORT_TILE_TO_NODES) = 9
    /\ \A t \in DOMAIN PORT_TILE_TO_NODES :
           /\ Len(PORT_TILE_TO_NODES[t]) = 2
           /\ PORT_TILE_TO_NODES[t][1] # PORT_TILE_TO_NODES[t][2]
           /\ \A i \in 1 .. 2 :
                  /\ PORT_TILE_TO_NODES[t][i] \in VALID_NODES
                  /\ t \in KeyTiles(PORT_TILE_TO_NODES[t][i])
    /\ Cardinality(PortTableKeys) = 18
    /\ (pc # "json" /\ PortsLeftOut /\ Cardinality(MarkedPortTiles(data.tiles)) = 9) =>
           IF Accepted THEN Cardinality(DOMAIN heap[gs].ports) = 18
           ELSE ~ListedKind("entry_count")

\* The sample board, all 9 port tiles marked, built with its derived ports.
C15_CompleteBoardPorts ==
    /\ pc = "ready"
    /\ PortsLeftOut
    /\ data.tiles = SAMPLE_TILES
    /\ Cardinality(MarkedPortTiles(data.tiles)) = 9
    /\ DOMAIN heap[gs].ports = PortTableKeys

\* ------------------------------------------------------------------------
\* Properties of predict_robber and evaluate_init_board
\* ------------------------------------------------------------------------
\* A settlement or city of the player touches the tile.
PlayerTouches(g, player_id, tile_id) ==
    \E n \in DOMAIN g.nodes :
        g.nodes[n][1] = player_id /\ tile_id \in KeyTiles(n)

\* C17: for every game state predict_robber returns one entry per player,
\* each a list of 3 (tile, probability) pairs whose probabilities sum to 1;
\* no returned tile is touched by a settlement or city of the player; a list
\* of fewer than 3 eligible tiles is filled by repeating its last tile.
C17_RobberPredictionPerPlayer ==
    pc = "robber" =>
        /\ ret.error = ""
        /\ Len(ret.value) = Len(heap[gs].players)
        /\ \A i \in DOMAIN ret.value :
               /\ Len(ret.value[i]) = 3
               /\ SumsToOne(ret.value[i])
               /\ \A j \in 1 .. 3 :
                      ~PlayerTouches(heap[gs], heap[gs].players[i], ret.value[i][j][1])
               /\ ret.value[i][1][1] = ret.value[i][2][1]
                      => ret.value[i][2][1] = ret.value[i][3][1]
               /\ ret.value[i][1][1] # ret.value[i][3][1]
                      => ret.value[i][1][1] # ret.value[i][2][1]

\* C18: for every state with 4 players evaluate_init_board returns a 4-tuple
\* whose entries sum to 1 and one PlayerEval per player.
C18_EvaluationSumsToOne ==
    (pc = "evaluated" /\ Len(heap[gs].players) = 4) =>
        /\ ret.error = ""
        /\ Len(ret.value[1]) = 4
        /\ ret.value[1][1] + ret.value[1][2] + ret.value[1][3] + ret.value[1][4]
               \in (ONE - TOL) .. (ONE + TOL)
        /\ Len(ret.value[2]) = 4

\* C19: for every game state evaluate_init_board returns, for every player,
\* productions with raw_prod[r] >= base_prod[r] and paired_prod[r] >=
\* base_prod[r] for each of the 5 resources r.
C19_ProductionsNeverBelowBase ==
    pc = "evaluated" =>
        /\ ret.error = ""
        /\ Len(ret.value[2]) = Len(heap[gs].players)
        /\ \A i \in DOMAIN ret.value[2] : \A r \in Resources :
               /\ ret.value[2][i].raw_prod[r] >= ret.value[2][i].base_prod[r]
               /\ ret.value[2][i].paired_prod[r] >= ret.value[2][i].base_prod[r]

\* What evaluate_init_board returned, when it returned: the 4-tuple and the
\* list of PlayerEval records.
Normed == ret.value[1]
Evals == ret.value[2]

\* A number of tenths as a score.
Tenths(t) == t * (SCORE_ONE \div 10)

\* An entry of a PlayerEval's breakdown, 0 when the key is absent.
BreakdownOf(ev, key) ==
    IF key \in DOMAIN ev.breakdown THEN ev.breakdown[key] ELSE 0

\* The score of a PlayerEval before the targeting penalty was subtracted.
PreTargetScore(ev) == ev.total_score - BreakdownOf(ev, "target_penalty")

\* The PlayerEval records on the same side of strategy index 0.5 as record i,
\* record i left out.
SameSide(i) ==
    {j \in (DOMAIN Evals) \ {i} :
        (Evals[j].strategy_index < SCORE_ONE \div 2)
          <=> (Evals[i].strategy_index < SCORE_ONE \div 2)}

\* C26: with 4 players evaluate_init_board returns PlayerEvals in which every
\* player targets one other player, the highest-scoring one on its side of
\* strategy index 0.5 when another player is on that side and the
\* highest-scoring other player when none is; every score is the pre-target
\* score less TARGET_PENALTY for each player that targets the player, 4
\* penalties in all.
C26_EachPlayerTargetsOneRival ==
    (pc = "evaluated" /\ Len(heap[gs].players) = 4) =>
        /\ ret.error = ""
        /\ Len(Evals) = 4
        /\ \A i \in DOMAIN Evals :
               \E t \in (DOMAIN Evals) \ {i} :
                   /\ Evals[i].target = Evals[t].player_id
                   /\ \A j \in (IF SameSide(i) # {} THEN SameSide(i)
                                 ELSE (DOMAIN Evals) \ {i}) :
                          PreTargetScore(Evals[j]) <= PreTargetScore(Evals[t])
                   /\ SameSide(i) # {} => t \in SameSide(i)
        /\ \A j \in DOMAIN Evals :
               BreakdownOf(Evals[j], "target_penalty")
                 = - Tenths(TARGET_PENALTY)
                     * Cardinality({i \in DOMAIN Evals :
                                      Evals[i].target = Evals[j].player_id})

\* The nodes of player_id in state g, and whether one of them is a 3:1 port.
NodesOf(g, player_id) == {n \in DOMAIN g.nodes : g.nodes[n][1] = player_id}

HoldsMajorPort(g, player_id) ==
    \E n \in NodesOf(g, player_id) : n \in DOMAIN g.ports /\ g.ports[n] = 5

\* An unoccupied 3:1 port node lies 2 to 3 free edges from a settlement of
\* the player.
MajorPortInReach(g, player_id) ==
    \E n \in NodesOf(g, player_id) :
        \E entry \in Range(bfs_from_node(g, n, 3)) :
            /\ entry[1] \in (DOMAIN g.ports) \ (DOMAIN g.nodes)
            /\ g.ports[entry[1]] = 5
            /\ entry[2] \in 2 .. 3

\* C27: evaluate_init_board returns PlayerEvals in which a player with at most
\* 2 pips of grain before the robber carries no wheat penalty when it holds a
\* 3:1 port node, half the full penalty of 3 times NO_WHEAT when an open 3:1
\* port node is 2 to 3 edges away, and the full penalty otherwise; a player
\* with more grain carries none.
C27_WheatPenaltyByPortAccess ==
    (pc = "evaluated" /\ Len(heap[gs].players) = 4) =>
        /\ ret.error = ""
        /\ \A i \in DOMAIN Evals :
               2 * BreakdownOf(Evals[i], "no_wheat_penalty")
                 = IF Evals[i].raw_prod[3] > 2 * SCORE_ONE THEN 0
                   ELSE IF HoldsMajorPort(heap[gs], Evals[i].player_id) THEN 0
                   ELSE IF MajorPortInReach(heap[gs], Evals[i].player_id)
                        THEN - 3 * Tenths(NO_WHEAT)
                        ELSE - 6 * Tenths(NO_WHEAT)

\* C30: with 4 players every entry of the 4-tuple evaluate_init_board returns
\* lies between 0 and 1, also when a total score is negative.
C30_NormalizedScoresInUnitInterval ==
    (pc = "evaluated" /\ Len(heap[gs].players) = 4) =>
        /\ ret.error = ""
        /\ Len(Normed) = 4
        /\ \A i \in DOMAIN Normed : Normed[i] >= 0 /\ Normed[i] <= ONE

\* ------------------------------------------------------------------------
\* _prune_and_normalize called on its own
\* ------------------------------------------------------------------------
\* The longest list of cases passed in, and the number of equal parts the
\* probability 1.0 is cut into.
MaxCases == 4
MaxParts == 8

\* Lists of cases as simulate_settle builds them: branch i is the object i,
\* the probabilities are multiples of 1 / MaxParts, some of them 0, that sum
\* to 1.
CASE_LISTS ==
    UNION {{List([i \in 1 .. n |-> <<i, parts[i] * (ONE \div MaxParts)>>]) :
              parts \in {f \in [1 .. n -> 0 .. MaxParts] :
                           SumSeq(List(f)) = MaxParts}} :
           n \in 1 .. MaxCases}

PruneInit ==
    /\ new_cases \in CASE_LISTS
    /\ max_window \in 0 .. MaxWindow
    /\ data = None
    /\ heap = <<>>
    /\ next_id = 0
    /\ gs = 0
    /\ gs0 = None
    /\ x = 0
    /\ pc = "new_cases"
    /\ current_placement = 0
    /\ my_options = <<>>
    /\ opt = 0
    /\ option = <<>>
    /\ step = 0
    /\ cases = <<>>
    /\ results = <<>>
    /\ top_n = None
    /\ ret = <<>>

\* cases = _prune_and_normalize(new_cases, max_window)
PruneAndNormalize ==
    /\ pc = "new_cases"
    /\ cases' = prune_and_normalize(new_cases, max_window)
    /\ pc' = "pruned"
    /\ UNCHANGED <<heap, next_id, gs, gs0, data, x, max_window,
                   current_placement, my_options, opt, option, step, new_cases,
                   results, top_n, ret>>

PruneNext == PruneAndNormalize

SpecPrune == PruneInit /\ [][PruneNext]_vars

\* ------------------------------------------------------------------------
\* Properties of _prune_and_normalize
\* ------------------------------------------------------------------------
\* The probability branch o had in the list passed in.
ProbBefore(o) == new_cases[CHOOSE j \in DOMAIN new_cases : new_cases[j][1] = o][2]

\* The sum of the probabilities the kept branches had.
KeptTotal == SumSeq(List([i \in DOMAIN cases |-> ProbBefore(cases[i][1])]))

\* C22: a list of at most max_window cases is returned as it is; of a longer
\* list exactly max_window different branches are kept, each with a
\* probability that was at least that of every discarded branch, and the
\* probability of a kept branch is what it was divided by the sum of what the
\* kept branches had.
C22_PruneKeepsTheTopAndRescales ==
    pc = "pruned"
      => IF Len(new_cases) <= max_window THEN cases = new_cases
         ELSE /\ Len(cases) = max_window
              /\ Refs(cases) \subseteq Refs(new_cases)
              /\ Cardinality(Refs(cases)) = max_window
              /\ \A o \in Refs(cases), d \in Refs(new_cases) \ Refs(cases) :
                     ProbBefore(o) >= ProbBefore(d)
              /\ \A i \in DOMAIN cases :
                     cases[i][2] = FDiv(ProbBefore(cases[i][1]), KeptTotal)

\* A pruned list whose kept branches are not the first ones of the list
\* passed in and had less than 1.0 between them, so that each is scaled up.
C22_PrunedOutOfOrder ==
    /\ pc = "pruned"
    /\ max_window = 2
    /\ Len(new_cases) = 4
    /\ Refs(cases) = {3, 4}
    /\ KeptTotal < ONE
    /\ \A i \in DOMAIN cases : cases[i][2] > ProbBefore(cases[i][1])

\* ------------------------------------------------------------------------
\* _bfs_from_node called on its own
\* ------------------------------------------------------------------------
\* The largest max_dist passed in.
MaxDist == 3

\* The sample layout with the land tiles 11 and 12 turned into ocean: the
\* edge 11_12 between the nodes 6_11_12 and 11_12_18 has no land side.
LAKE_TILES == DictSet(DictSet(SAMPLE_TILES, 11, <<6, 0>>), 12, <<6, 0>>)

\* States to search: the sample board without roads, with the roads of the
\* finished draft, and with roads around 10_11_17 and 11_12_18; the board
\* with the lake, without roads.
BFS_STATES ==
    { GameState(SAMPLE_TILES, SAMPLE_ROBBER, BOARDS[1].ports, <<>>, <<>>, 0,
                SAMPLE_PLAYERS),
      GameState(SAMPLE_TILES, SAMPLE_ROBBER, BOARDS[1].ports, DraftOwnedNodes(8),
                DraftEdges(8), 0, SAMPLE_PLAYERS),
      GameState(SAMPLE_TILES, SAMPLE_ROBBER, BOARDS[1].ports,
                SIM_STARTS[10].nodes, SIM_STARTS[10].edges,
                1, SAMPLE_PLAYERS),
      GameState(LAKE_TILES, SAMPLE_ROBBER, BOARDS[1].ports, <<>>, <<>>, 0,
                SAMPLE_PLAYERS) }

BfsInit ==
    /\ \E g \in BFS_STATES :
          /\ heap = (0 :> g)
          /\ gs0 = g
    /\ data \in [start : VALID_NODES, max_dist : 0 .. MaxDist]
    /\ next_id = 1
    /\ gs = 0
    /\ x = 0
    /\ max_window = 0
    /\ pc = "search"
    /\ current_placement = 0
    /\ my_options = <<>>
    /\ opt = 0
    /\ option = <<>>
    /\ step = 0
    /\ new_cases = <<>>
    /\ cases = <<>>
    /\ results = <<>>
    /\ top_n = None
    /\ ret = <<>>

\* ret = _bfs_from_node(gs, start, max_dist), the dict as the list of its
\* items <<node, dist, first_edge>>.
BfsFromNode ==
    /\ pc = "search"
    /\ ret' = bfs_from_node(heap[gs], data.start, data.max_dist)
    /\ pc' = "searched"
    /\ UNCHANGED <<heap, next_id, gs, gs0, data, x, max_window,
                   current_placement, my_options, opt, option, step, new_cases,
                   cases, results, top_n>>

BfsNext == BfsFromNode

SpecBfs == BfsInit /\ [][BfsNext]_vars

\* ------------------------------------------------------------------------
\* Properties of _pick_road and _bfs_from_node
\* ------------------------------------------------------------------------
\* The nodes a road from candidate s may aim at in state g: reached by the
\* search within 3 edges, open in g, none of the 12 highest-scoring open
\* nodes, and still open once s is settled.
RoadTargets(g, s, ranked) ==
    {n \in VisitedKeys(bfs_from_node(g, s, 3)) \cap OpenNodes(g) :
        /\ n # s
        /\ n \notin Top12Keys(ranked)
        /\ Cardinality(KeyTiles(n) \cap KeyTiles(s)) # 2}

\* The target of the road of candidate s is one of RoadTargets with the
\* highest score.
TargetIsBest(g, s, ranked, target) ==
    target # None =>
        /\ target[1] \in RoadTargets(g, s, ranked)
        /\ \A n \in RoadTargets(g, s, ranked) :
               ScoreLookup(ranked)[n] <= ScoreLookup(ranked)[target[1]]

\* C24: when _pick_road finds a road target for the settlement of an option
\* of settle_decision, the target is the highest-scoring node among the nodes
\* reachable within 3 edges that are not among the 12 highest-scoring open
\* nodes, are open, and do not share exactly two tiles with the settlement.
C24_RoadTargetStaysOpen ==
    pc = "decided" =>
        \A ranked \in {rank_all_spots(heap[gs], None)} :
        \A i \in DOMAIN ret :
            TargetIsBest(heap[gs], ret[i][1][1], ranked,
                         road_target(heap[gs], ret[i][1][1], ScoreLookup(ranked),
                                     Top12Keys(ranked)))

\* The edge two nodes share, when they share exactly two tiles.
SharedEdge(m, n) ==
    LET Pair(shared) ==
            <<CHOOSE a \in shared : \A b \in shared : a <= b,
              CHOOSE a \in shared : \A b \in shared : a >= b>>
    IN Pair(KeyTiles(m) \cap KeyTiles(n))

\* A road can be built from node m to node n in state g: they share an edge
\* that is unoccupied and has a land tile on one side.
Linked(g, m, n) ==
    /\ Cardinality(KeyTiles(m) \cap KeyTiles(n)) = 2
    /\ SharedEdge(m, n) \notin DOMAIN g.edges
    /\ LandTile(g.tiles, SharedEdge(m, n)[1]) \/ LandTile(g.tiles, SharedEdge(m, n)[2])

\* The nodes within k such edges of node s.
RECURSIVE Ball(_, _, _)
Ball(g, s, k) ==
    IF k <= 0 THEN {s}
    ELSE LET Grow(b) == b \cup {n \in VALID_NODES : \E m \in b : Linked(g, m, n)}
         IN Grow(Ball(g, s, k - 1))

\* C25: the search returns one entry for each node within max_dist free
\* edges of start and for no other node; the distance of an entry is the
\* smallest number of free edges from start to the node; start has no first
\* edge, and the first edge of any other node is a free edge of start whose
\* far end is one edge nearer to the node.
C25_SearchFindsShortestPaths ==
    pc = "searched" =>
        /\ VisitedKeys(ret) = Ball(heap[gs], data.start, data.max_dist)
        /\ Len(ret) = Cardinality(VisitedKeys(ret))
        /\ \A i \in DOMAIN ret :
               /\ ret[i][1] \in Ball(heap[gs], data.start, ret[i][2])
               /\ ret[i][1] \notin Ball(heap[gs], data.start, ret[i][2] - 1)
                    \/ ret[i][2] = 0
               /\ ret[i][1] = data.start <=> ret[i][2] = 0
               /\ IF ret[i][2] = 0 THEN ret[i][3] = None
                  ELSE /\ ret[i][3] # None
                       /\ \E m \in VALID_NODES :
                             /\ Linked(heap[gs], data.start, m)
                             /\ SharedEdge(data.start, m) = ret[i][3][1]
                             /\ ret[i][1] \in Ball(heap[gs], m, ret[i][2] - 1)

\* A search to distance 3 on a board with roads: a neighbour of start lies
\* behind a road and is not reached, another node is reached at distance 3.
C25_SearchAroundARoad ==
    /\ pc = "searched"
    /\ data.max_dist = 3
    /\ \E n \in VALID_NODES \ VisitedKeys(ret) :
          /\ Cardinality(KeyTiles(n) \cap KeyTiles(data.start)) = 2
          /\ SharedEdge(n, data.start) \in DOMAIN heap[gs].edges
    /\ \E i \in DOMAIN ret : ret[i][2] = 3


====
